---------------------------- MODULE Spec2Model ----------------------------
(***************************************************************************)
(* A model of the agent orchestration runtime of claude_code_python:       *)
(*   - the file-mutation guard (EditTool, WriteTool, ReadTool and the      *)
(*     read-timestamp ledger ClaudeCodeCLI.read_file_timestamps),          *)
(*   - the conversation loop OpenAIClient.query.                           *)
(*                                                                         *)
(* Text is a sequence of characters over Alphabet; "CR" and "LF" stand for *)
(* the carriage return and the line feed.  Time is an integer wall clock;  *)
(* a file written at clock c carries modification time c, and a file that  *)
(* predates the session may carry the modification time 0 (the epoch).     *)
(*                                                                         *)
(* The tools' execute coroutines contain no await: the task that starts a  *)
(* tool call keeps the event loop (running) until the call returns.  Other *)
(* processes (the user, a linter) are not bound by the event loop and may  *)
(* touch the filesystem between any two steps of a call.                   *)
(***************************************************************************)
EXTENDS Integers, Sequences, FiniteSets, TLC

\* ------------------------------------------------------------------ bounds
MaxLen == 1
MaxTime == 2
NumTasks == 2
MaxTextLen == 3
MaxArgLen == 2
MaxIterations == 2
MaxCalls == 2
MaxUsage == 1
\* MAX_OUTPUT_SIZE, scaled to the texts of the model: a file of more
\* characters is too large for a read without offset and limit
MaxOutputSize == 4

\* the characters of the texts of SpecText, and of the texts of Spec (where the
\* state of the file and of the ledger, not the text, is what varies)
Alphabet == {"a", "CR", "LF"}
SessionAlphabet == {"a"}
Paths == {"a.txt", "n.ipynb"}
Tasks == 1..NumTasks
Texts(n) == UNION {[1..k -> Alphabet] : k \in 0..n}
SessionTexts == UNION {[1..k -> SessionAlphabet] : k \in 0..MaxLen}

\* ------------------------------------------------------- python str / files
\* sub occurs in s at position i (1-based)
IsAt(s, sub, i) ==
  /\ i >= 1
  /\ i + Len(sub) - 1 <= Len(s)
  /\ SubSeq(s, i, i + Len(sub) - 1) = sub

\* str.find from a start position; 0 when there is no match
str_find(s, sub, start) ==
  LET P == {i \in start..(Len(s) + 1) : IsAt(s, sub, i)}
  IN  IF P = {} THEN 0 ELSE CHOOSE i \in P : \A j \in P : i <= j

\* `sub in s`
str_contains(s, sub) == str_find(s, sub, 1) # 0

\* str.count: the number of non-overlapping occurrences, scanning from the left
RECURSIVE count_from(_, _, _)
count_from(s, sub, start) ==
  LET i == str_find(s, sub, start)
  IN  IF i = 0 THEN 0 ELSE 1 + count_from(s, sub, i + Len(sub))

str_count(s, sub) == IF sub = <<>> THEN Len(s) + 1 ELSE count_from(s, sub, 1)

\* str.replace(old, new, 1): the leftmost occurrence only
str_replace_first(s, old, new) ==
  LET i == str_find(s, old, 1)
  IN  IF i = 0 THEN s
      ELSE SubSeq(s, 1, i - 1) \o new \o SubSeq(s, i + Len(old), Len(s))

\* os.linesep of the platform the tools run on (POSIX)
os_linesep == <<"LF">>

\* open(path, 'r') with the default newline=None: universal newlines, every
\* CR LF and every lone CR is handed to the program as LF
RECURSIVE read_text(_)
read_text(bytes) ==
  IF bytes = <<>> THEN <<>>
  ELSE IF Head(bytes) = "CR"
       THEN <<"LF">> \o read_text(IF Len(bytes) >= 2 /\ bytes[2] = "LF"
                                  THEN Tail(Tail(bytes)) ELSE Tail(bytes))
       ELSE <<Head(bytes)>> \o read_text(Tail(bytes))

\* open(path, 'w') with the default newline=None: every LF written becomes
\* os.linesep, everything else is written as it is
RECURSIVE write_text(_)
write_text(s) ==
  IF s = <<>> THEN <<>>
  ELSE (IF Head(s) = "LF" THEN os_linesep ELSE <<Head(s)>>) \o write_text(Tail(s))

\* full_file_path.endswith('.ipynb')
endswith_ipynb(p) == p \in {"n.ipynb"}

\* ------------------------------------------------------------------- state
VARIABLES
  fs,                    \* the filesystem: existing path -> [content, mtime]
  read_file_timestamps,  \* the ledger: a dict path -> mtime seen
  clock,                 \* the wall clock that stamps file writes
  running,               \* the task that holds the event loop, 0 when none
  call,                  \* task -> its tool call in flight
  last,                  \* the last event: a tool's returned result, or an external change
  read_paths,            \* the paths a read of this session has returned successfully
  target,                \* the path the session's tool calls address
  seen,                  \* task -> the mtime of the target as the task last read or
                         \* wrote it, -1 when it never did
  \* OpenAIClient.query
  max_iterations,        \* the parameter max_iterations
  tool_executor,         \* TRUE when a tool_executor is given, FALSE when it is None
  query_state,           \* where the coroutine stands, see QueryStates
  iteration,             \* the index of `for iteration in range(max_iterations)`
  attempt,               \* the index of `for attempt in range(retry_attempts)`
  total_tokens,
  tool_use_count,
  api_messages,          \* what the loop appended to the transcript
  pending_calls,         \* the tool calls of this response still to dispatch
  query_result,          \* the dict returned, or the exception raised
  last_delay,            \* the delay slept before this attempt, 0 when none
  provider,              \* the provider's and the executor's own record of the run
  \* AgentTool.execute with parallel_count > 1, ParallelExecutor
  num_agents,            \* the parameter num_agents (parallel_count)
  fan_state,             \* where AgentTool.execute stands, see FanStates
  tasks,                 \* agent index -> the coroutine execute_agent_task of that index
  completion_order,      \* the agent indexes in the order their coroutines ended
  agent_results,         \* the list execute_parallel_tasks returned
  synthesis_query,       \* the arguments of the query of synthesize_results
  synthesis_result,      \* the AgentResult synthesize_results returned
  fan_result,            \* what AgentTool.execute returned or raised
  agent_tools,           \* agent_config.tools of the agent type asked for
  functions,             \* the parameter functions: the tool schemas of the caller
  task_functions,        \* agent index -> the tools its query was given
  \* load_all_agents
  agent_files,           \* the .md files of .claude/agents still to scan, in os.walk order
  agents,                \* the list `agents` of load_all_agents
  load_state,            \* where load_all_agents stands: "none", "scanning", "loaded"
  create_calls,          \* the calls of chat.completions.create the provider counted
  conversation_history,  \* ClaudeCodeCLI.conversation_history
  executed               \* <<agent index, tool name>> of the tools execute_tool ran

guardVars == <<fs, read_file_timestamps, clock, running, call, last, read_paths, target,
               seen>>
loopVars == <<max_iterations, tool_executor, query_state, iteration, attempt,
              total_tokens, tool_use_count, api_messages, pending_calls,
              query_result, last_delay, provider>>
fanVars == <<num_agents, fan_state, tasks, completion_order, agent_results,
             synthesis_query, synthesis_result, fan_result>>
toolVars == <<agent_tools, functions, task_functions>>
sessionVars == <<agent_files, agents, load_state, create_calls, conversation_history,
                 executed>>
vars == <<guardVars, loopVars, fanVars, toolVars, sessionVars>>

\* no agent set is being loaded
SessionAtRest ==
  /\ agent_files = <<>>
  /\ agents = <<>>
  /\ load_state = "none"
  /\ create_calls = 0
  /\ conversation_history = <<>>
  /\ executed = {}

\* no fan-out is running
FanAtRest ==
  /\ num_agents = 0
  /\ fan_state = "none"
  /\ tasks = <<>>
  /\ completion_order = <<>>
  /\ agent_results = <<>>
  /\ synthesis_query = [called |-> FALSE]
  /\ synthesis_result = [kind |-> "none"]
  /\ fan_result = [kind |-> "none"]
  /\ agent_tools = <<"*">>
  /\ functions = <<>>
  /\ task_functions = <<>>

\* an entry of the file system: a regular file with its bytes, or a directory
File(content, mtime) == [content |-> content, mtime |-> mtime, isdir |-> FALSE]
Directory(mtime) == [content |-> <<>>, mtime |-> mtime, isdir |-> TRUE]

\* os.path.exists / os.path.getmtime / os.path.isdir / os.path.getsize
exists(p) == p \in DOMAIN fs
getmtime(p) == fs[p].mtime
isdir(p) == exists(p) /\ fs[p].isdir
getsize(p) == Len(fs[p].content)

\* read_file_timestamps.get(path); None is modelled by the key being absent
has_key(d, p) == p \in DOMAIN d
dict_set(d, p, v) == [q \in (DOMAIN d) \cup {p} |-> IF q = p THEN v ELSE d[q]]
dict_del(d, p) == [q \in (DOMAIN d) \ {p} |-> d[q]]

\* `not read_timestamp`: the entry is missing (None) or is the float 0.0
not_read_timestamp(d, p) == ~has_key(d, p) \/ d[p] = 0

\* ------------------------------------------------------------ tool results
ErrNoOp == "No changes to make: old_string and new_string are exactly the same."
ErrExists == "Cannot create new file - file already exists."
ErrMissing == "File does not exist."
ErrNotebook == "File is a Jupyter Notebook. Use a notebook edit tool instead."
ErrUnread == "File has not been read yet. Read it first before writing to it."
ErrStale == "File has been modified since read, either by the user or by a linter. Read it again before attempting to write it."
ErrNotFound == "String to replace not found in file."
ErrMultiple == "Found multiple matches of the string to replace."
ErrReadFailed == "Failed to read file"
ErrDirectory == "Path is a directory, not a file."
ErrTooLarge == "File too large"
NoError == "None"

Idle == [phase |-> "idle"]
NoEvent == [tool |-> "none"]
ExternalEvent == [tool |-> "external"]


\* What a call finds when it starts: the file and the ledger entry of its path
Snapshot(p) ==
  [exists |-> exists(p),
   content |-> IF exists(p) THEN fs[p].content ELSE <<>>,
   mtime |-> IF exists(p) THEN fs[p].mtime ELSE 0,
   has_entry |-> has_key(read_file_timestamps, p),
   entry |-> IF has_key(read_file_timestamps, p) THEN read_file_timestamps[p] ELSE 0]

Failure(t, tool, p, old, new, err) ==
  [tool |-> tool, task |-> t, path |-> p, old |-> old, new |-> new,
   success |-> FALSE, error |-> err, content |-> <<>>, pre |-> Snapshot(p),
   disturbed |-> FALSE, follows_write |-> FALSE]

\* ----------------------------------------------------------------- EditTool
\* `if old_string == new_string`
is_noop(old_string, new_string) == old_string = new_string

\* `if last_write_time > read_timestamp`
modified_since_read(last_write_time, read_timestamp) == last_write_time > read_timestamp

\* `if matches > 1`
too_many_matches(matches) == matches > 1

\* validate_input with the unread check left out
EditTool_validate_input_no_unread_check(file_path, old_string, new_string, timestamps) ==
  IF is_noop(old_string, new_string) THEN ErrNoOp
  ELSE IF exists(file_path) /\ old_string = <<>> THEN ErrExists
  ELSE IF ~exists(file_path) /\ old_string = <<>> THEN NoError
  ELSE IF ~exists(file_path) THEN ErrMissing
  ELSE IF endswith_ipynb(file_path) THEN ErrNotebook
  ELSE IF has_key(timestamps, file_path)
          /\ modified_since_read(getmtime(file_path), timestamps[file_path]) THEN ErrStale
  ELSE LET file_content == read_text(fs[file_path].content)
       IN  IF ~str_contains(file_content, old_string) THEN ErrNotFound
           ELSE IF too_many_matches(str_count(file_content, old_string)) THEN ErrMultiple
           ELSE NoError

\* validate_input with the no-op check made after the checks of the path
EditTool_validate_input_noop_late(file_path, old_string, new_string, timestamps) ==
  IF exists(file_path) /\ old_string = <<>> THEN ErrExists
  ELSE IF ~exists(file_path) /\ old_string = <<>> THEN NoError
  ELSE IF ~exists(file_path) THEN ErrMissing
  ELSE IF endswith_ipynb(file_path) THEN ErrNotebook
  ELSE IF not_read_timestamp(timestamps, file_path) THEN ErrUnread
  ELSE IF modified_since_read(getmtime(file_path), timestamps[file_path]) THEN ErrStale
  ELSE IF is_noop(old_string, new_string) THEN ErrNoOp
  ELSE LET file_content == read_text(fs[file_path].content)
       IN  IF ~str_contains(file_content, old_string) THEN ErrNotFound
           ELSE IF too_many_matches(str_count(file_content, old_string)) THEN ErrMultiple
           ELSE NoError

\* validate_input with the ledger checks made before the creation is allowed
EditTool_validate_input_creation_after_ledger(file_path, old_string, new_string, timestamps) ==
  IF is_noop(old_string, new_string) THEN ErrNoOp
  ELSE IF exists(file_path) /\ old_string = <<>> THEN ErrExists
  ELSE IF not_read_timestamp(timestamps, file_path) THEN ErrUnread
  ELSE IF ~exists(file_path) /\ old_string = <<>> THEN NoError
  ELSE IF ~exists(file_path) THEN ErrMissing
  ELSE IF endswith_ipynb(file_path) THEN ErrNotebook
  ELSE IF modified_since_read(getmtime(file_path), timestamps[file_path]) THEN ErrStale
  ELSE LET file_content == read_text(fs[file_path].content)
       IN  IF ~str_contains(file_content, old_string) THEN ErrNotFound
           ELSE IF too_many_matches(str_count(file_content, old_string)) THEN ErrMultiple
           ELSE NoError

\* the checks of validate_input, in the order of the code; NoError when valid
EditTool_validate_input(file_path, old_string, new_string, timestamps) ==
  IF is_noop(old_string, new_string) THEN ErrNoOp
  ELSE IF exists(file_path) /\ old_string = <<>> THEN ErrExists
  ELSE IF ~exists(file_path) /\ old_string = <<>> THEN NoError
  ELSE IF ~exists(file_path) THEN ErrMissing
  ELSE IF endswith_ipynb(file_path) THEN ErrNotebook
  ELSE IF not_read_timestamp(timestamps, file_path) THEN ErrUnread
  ELSE IF modified_since_read(getmtime(file_path), timestamps[file_path]) THEN ErrStale
  ELSE LET file_content == read_text(fs[file_path].content)
       IN  IF ~str_contains(file_content, old_string) THEN ErrNotFound
           ELSE IF too_many_matches(str_count(file_content, old_string)) THEN ErrMultiple
           ELSE NoError

\* an await between the write and the ledger update would hand the loop over
task_after_write_file_yields(t) == 0

\* The task that holds the event loop once _write_file has returned: there is
\* no await between the write and the ledger update, the caller keeps it
task_after_write_file(t) == t

\* `read_file_timestamps[full_file_path] = os.path.getmtime(full_file_path)`,
\* with `except OSError: pass` when the file is gone
update_read_timestamp_of_a_copy(timestamps, p) == timestamps

update_read_timestamp(timestamps, p) ==
  IF exists(p) THEN dict_set(timestamps, p, getmtime(p)) ELSE timestamps

\* validate_input; a rejected request returns at once
Edit_start(t, p, old, new) ==
  /\ UNCHANGED <<loopVars, fanVars, toolVars, sessionVars, seen>>
  /\ running = 0
  /\ call[t].phase = "idle"
  /\ LET err == EditTool_validate_input(p, old, new, read_file_timestamps)
     IN  IF err # NoError
         THEN /\ last' = Failure(t, "edit", p, old, new, err)
              /\ UNCHANGED <<fs, read_file_timestamps, clock, running, call, read_paths, target>>
         ELSE /\ call' = [call EXCEPT ![t] =
                    [phase |-> "validated", tool |-> "edit", path |-> p,
                     old |-> old, new |-> new, pre |-> Snapshot(p),
                     disturbed |-> FALSE]]
              /\ running' = t
              /\ last' = NoEvent
              /\ UNCHANGED <<fs, read_file_timestamps, clock, read_paths, target>>

\* read the original, apply the edit, write the updated content
Edit_write(t) ==
  /\ UNCHANGED <<loopVars, fanVars, toolVars, sessionVars, seen>>
  /\ running = t
  /\ call[t].phase = "validated"
  /\ call[t].tool = "edit"
  /\ LET p == call[t].path
         original_file == IF exists(p) THEN read_text(fs[p].content) ELSE <<>>
         updated_file == IF call[t].old = <<>> THEN call[t].new
                         ELSE str_replace_first(original_file, call[t].old, call[t].new)
     IN  /\ fs' = dict_set(fs, p, File(write_text(updated_file), clock))
         /\ call' = [call EXCEPT ![t] =
               [phase |-> "written", tool |-> "edit", path |-> p,
                old |-> call[t].old, new |-> call[t].new, pre |-> call[t].pre,
                disturbed |-> call[t].disturbed,
                original_file |-> original_file, updated_file |-> updated_file]]
  /\ running' = task_after_write_file(t)
  /\ UNCHANGED <<read_file_timestamps, clock, last, read_paths, target>>

\* update the read timestamp and return
Edit_finish(t) ==
  /\ UNCHANGED <<loopVars, fanVars, toolVars, sessionVars>>
  /\ running = t
  /\ call[t].phase = "written"
  /\ call[t].tool = "edit"
  /\ read_file_timestamps' = update_read_timestamp(read_file_timestamps, call[t].path)
  /\ last' = [tool |-> "edit", task |-> t, path |-> call[t].path,
              old |-> call[t].old, new |-> call[t].new,
              success |-> TRUE, error |-> NoError, content |-> call[t].updated_file,
              pre |-> call[t].pre, disturbed |-> call[t].disturbed,
              follows_write |-> FALSE]
  /\ seen' = [seen EXCEPT ![t] = IF exists(call[t].path) THEN getmtime(call[t].path) ELSE -1]
  /\ call' = [call EXCEPT ![t] = Idle]
  /\ running' = 0
  /\ UNCHANGED <<fs, clock, read_paths, target>>

\* ---------------------------------------------------------------- WriteTool
\* the checks of WriteTool.execute applied whether or not the file exists
WriteTool_validate_also_new_files(file_path, timestamps) ==
  IF endswith_ipynb(file_path) THEN ErrNotebook
  ELSE IF not_read_timestamp(timestamps, file_path) THEN ErrUnread
  ELSE IF exists(file_path)
          /\ modified_since_read(getmtime(file_path), timestamps[file_path]) THEN ErrStale
  ELSE NoError

\* the checks WriteTool.execute applies to an existing file
WriteTool_validate(file_path, timestamps) ==
  IF ~exists(file_path) THEN NoError
  ELSE IF endswith_ipynb(file_path) THEN ErrNotebook
  ELSE IF not_read_timestamp(timestamps, file_path) THEN ErrUnread
  ELSE IF modified_since_read(getmtime(file_path), timestamps[file_path]) THEN ErrStale
  ELSE NoError

Write_start(t, p, content) ==
  /\ UNCHANGED <<loopVars, fanVars, toolVars, sessionVars, seen>>
  /\ running = 0
  /\ call[t].phase = "idle"
  /\ LET err == WriteTool_validate(p, read_file_timestamps)
     IN  IF err # NoError
         THEN /\ last' = Failure(t, "write", p, <<>>, content, err)
              /\ UNCHANGED <<fs, read_file_timestamps, clock, running, call, read_paths, target>>
         ELSE /\ call' = [call EXCEPT ![t] =
                    [phase |-> "validated", tool |-> "write", path |-> p,
                     old |-> <<>>, new |-> content, pre |-> Snapshot(p),
                     disturbed |-> FALSE]]
              /\ running' = t
              /\ last' = NoEvent
              /\ UNCHANGED <<fs, read_file_timestamps, clock, read_paths, target>>

Write_write(t) ==
  /\ UNCHANGED <<loopVars, fanVars, toolVars, sessionVars, seen>>
  /\ running = t
  /\ call[t].phase = "validated"
  /\ call[t].tool = "write"
  /\ fs' = dict_set(fs, call[t].path,
                    File(write_text(call[t].new), clock))
  /\ call' = [call EXCEPT ![t].phase = "written"]
  /\ running' = task_after_write_file(t)
  /\ UNCHANGED <<read_file_timestamps, clock, last, read_paths, target>>

Write_finish(t) ==
  /\ UNCHANGED <<loopVars, fanVars, toolVars, sessionVars>>
  /\ running = t
  /\ call[t].phase = "written"
  /\ call[t].tool = "write"
  /\ read_file_timestamps' = update_read_timestamp(read_file_timestamps, call[t].path)
  /\ last' = [tool |-> "write", task |-> t, path |-> call[t].path,
              old |-> <<>>, new |-> call[t].new,
              success |-> TRUE, error |-> NoError, content |-> call[t].new,
              pre |-> call[t].pre, disturbed |-> call[t].disturbed,
              follows_write |-> FALSE]
  /\ seen' = [seen EXCEPT ![t] = IF exists(call[t].path) THEN getmtime(call[t].path) ELSE -1]
  /\ call' = [call EXCEPT ![t] = Idle]
  /\ running' = 0
  /\ UNCHANGED <<fs, clock, read_paths, target>>

\* ----------------------------------------------------------------- ReadTool
\* a read without offset and limit: _read_text_file joins all the lines
ReadTool_read_text_file(p) == read_text(fs[p].content)

\* the checks of ReadTool.execute before the file is opened, for a read of a
\* text file without offset and limit
ReadTool_checks_without_size(p) ==
  IF ~exists(p) THEN ErrMissing
  ELSE IF isdir(p) THEN ErrDirectory
  ELSE NoError

ReadTool_checks(p) ==
  IF ~exists(p) THEN ErrMissing
  ELSE IF isdir(p) THEN ErrDirectory
  ELSE IF getsize(p) > MaxOutputSize THEN ErrTooLarge
  ELSE NoError

Read_start(t, p) ==
  /\ UNCHANGED <<loopVars, fanVars, toolVars, sessionVars, seen>>
  /\ running = 0
  /\ call[t].phase = "idle"
  /\ IF ReadTool_checks(p) # NoError
     THEN /\ last' = Failure(t, "read", p, <<>>, <<>>, ReadTool_checks(p))
          /\ UNCHANGED <<fs, read_file_timestamps, clock, running, call, read_paths, target>>
     ELSE /\ call' = [call EXCEPT ![t] =
                [phase |-> "content_read", tool |-> "read", path |-> p,
                 content |-> ReadTool_read_text_file(p), pre |-> Snapshot(p),
                 disturbed |-> FALSE,
                 follows_write |-> (last.tool = "write" /\ last.success
                                    /\ last.path = p /\ ~last.disturbed),
                 written |-> IF last.tool = "write" THEN last.new ELSE <<>>]]
          /\ running' = t
          /\ last' = NoEvent
          /\ UNCHANGED <<fs, read_file_timestamps, clock, read_paths, target>>

\* `read_file_timestamps[full_file_path] = os.path.getmtime(full_file_path)`;
\* an OSError here is caught by the enclosing `except Exception`
Read_finish(t) ==
  /\ UNCHANGED <<loopVars, fanVars, toolVars, sessionVars>>
  /\ running = t
  /\ call[t].phase = "content_read"
  /\ LET p == call[t].path
     IN  IF exists(p)
         THEN /\ read_file_timestamps' = dict_set(read_file_timestamps, p, getmtime(p))
              /\ read_paths' = read_paths \cup {p}
              /\ last' = [tool |-> "read", task |-> t, path |-> p,
                          old |-> <<>>, new |-> call[t].written,
                          success |-> TRUE, error |-> NoError,
                          content |-> call[t].content, pre |-> call[t].pre,
                          disturbed |-> call[t].disturbed,
                          follows_write |-> call[t].follows_write]
         ELSE /\ last' = [Failure(t, "read", p, <<>>, <<>>, ErrReadFailed)
                             EXCEPT !.pre = call[t].pre, !.disturbed = call[t].disturbed]
              /\ UNCHANGED <<read_file_timestamps, read_paths>>
  /\ seen' = [seen EXCEPT ![t] = IF exists(call[t].path) THEN call[t].pre.mtime ELSE @]
  /\ call' = [call EXCEPT ![t] = Idle]
  /\ running' = 0
  /\ UNCHANGED <<fs, clock, target>>

\* ------------------------------------------------------------- environment
\* a call in flight on p learns nothing of it, the model notes it
Disturb(p) ==
  [t \in Tasks |-> IF call[t].phase # "idle" /\ call[t].path = p
                   THEN [call[t] EXCEPT !.disturbed = TRUE] ELSE call[t]]

\* another process (the user, a linter) writes or creates the file
External_write(p, content) ==
  /\ UNCHANGED <<loopVars, fanVars, toolVars, sessionVars, seen>>
  /\ fs' = dict_set(fs, p, File(content, clock))
  /\ call' = Disturb(p)
  /\ last' = ExternalEvent
  /\ UNCHANGED <<read_file_timestamps, clock, running, read_paths, target>>

\* another process removes the file
External_delete(p) ==
  /\ UNCHANGED <<loopVars, fanVars, toolVars, sessionVars, seen>>
  /\ exists(p)
  /\ fs' = dict_del(fs, p)
  /\ call' = Disturb(p)
  /\ last' = ExternalEvent
  /\ UNCHANGED <<read_file_timestamps, clock, running, read_paths, target>>

\* time passes
Tick ==
  /\ UNCHANGED <<loopVars, fanVars, toolVars, sessionVars, seen>>
  /\ clock < MaxTime
  /\ clock' = clock + 1
  /\ UNCHANGED <<fs, read_file_timestamps, running, call, last, read_paths, target>>

\* ------------------------------------------------------ the guard's session
EmptyDict == [q \in {} |-> 0]

\* no query is running
QueryAtRest ==
  /\ max_iterations = 0
  /\ tool_executor = FALSE
  /\ query_state = "none"
  /\ iteration = 0
  /\ attempt = 0
  /\ total_tokens = 0
  /\ tool_use_count = 0
  /\ api_messages = <<>>
  /\ pending_calls = <<>>
  /\ query_result = [kind |-> "none"]
  /\ last_delay = 0
  /\ provider = [responses |-> 0]

Init ==
  /\ target \in Paths
  /\ clock = 1
  /\ fs \in {EmptyDict} \cup
            {[q \in {target} |-> File(c, m)] :
               c \in SessionTexts, m \in 0..1}
  /\ read_file_timestamps = EmptyDict
  /\ running = 0
  /\ call = [t \in Tasks |-> Idle]
  /\ last = NoEvent
  /\ read_paths = {}
  /\ seen = [t \in Tasks |-> -1]
  /\ QueryAtRest
  /\ FanAtRest
  /\ SessionAtRest

TaskStep(t) ==
  \/ \E old \in SessionTexts, new \in SessionTexts : Edit_start(t, target, old, new)
  \/ Edit_write(t)
  \/ Edit_finish(t)
  \/ \E content \in SessionTexts : Write_start(t, target, content)
  \/ Write_write(t)
  \/ Write_finish(t)
  \/ Read_start(t, target)
  \/ Read_finish(t)

Environment ==
  \/ \E content \in SessionTexts : External_write(target, content)
  \/ External_delete(target)
  \/ Tick

Next ==
  \/ \E t \in Tasks : TaskStep(t)
  \/ Environment

Spec == Init /\ [][Next]_vars

\* the session's tasks alone: the participants of a fan-out dispatch their
\* tool calls through the one execute_tool, no other process touches the file
NextParticipants ==
  \/ \E t \in Tasks : TaskStep(t)
  \/ Tick

SpecParticipants == Init /\ [][NextParticipants]_vars


\* ------------------------------------------ reads that ReadTool turns down
\* One path, a text file's or a notebook's, that may be missing, a directory, a file, or a file larger than
\* MAX_OUTPUT_SIZE, with the session's tasks and another process at work.
TooLargeText == [k \in 1..(MaxOutputSize + 1) |-> "a"]
LedgerTexts == SessionTexts \cup {TooLargeText}

InitLedger ==
  /\ target \in Paths
  /\ clock = 1
  /\ fs \in {EmptyDict}
         \cup {[q \in {target} |-> File(c, m)] : c \in LedgerTexts, m \in 0..1}
         \cup {[q \in {target} |-> Directory(m)] : m \in 0..1}
  /\ read_file_timestamps = EmptyDict
  /\ running = 0
  /\ call = [t \in Tasks |-> Idle]
  /\ last = NoEvent
  /\ read_paths = {}
  /\ seen = [t \in Tasks |-> -1]
  /\ QueryAtRest
  /\ FanAtRest
  /\ SessionAtRest

NextLedger ==
  \/ \E t \in Tasks : TaskStep(t)
  \/ \E content \in LedgerTexts : External_write(target, content)
  \/ External_delete(target)
  \/ Tick

SpecLedger == InitLedger /\ [][NextLedger]_vars


\* ------------------------------------------- edits of one freshly known file
\* One task, one text file, no other process: the text of the file and of the
\* arguments of edit and write is what varies.
InitText ==
  /\ target = "a.txt"
  /\ clock = 1
  /\ fs \in {[q \in {target} |-> File(c, 1)] : c \in Texts(MaxTextLen)}
  /\ read_file_timestamps = EmptyDict
  /\ running = 0
  /\ call = [t \in Tasks |-> Idle]
  /\ last = NoEvent
  /\ read_paths = {}
  /\ seen = [t \in Tasks |-> -1]
  /\ QueryAtRest
  /\ FanAtRest
  /\ SessionAtRest

NextText ==
  \/ \E old \in Texts(MaxArgLen), new \in Texts(MaxArgLen) :
        /\ Len(fs[target].content) - Len(old) + Len(new) <= MaxTextLen
        /\ Edit_start(1, target, old, new)
  \/ Edit_write(1)
  \/ Edit_finish(1)
  \/ \E content \in Texts(MaxArgLen) : Write_start(1, target, content)
  \/ Write_write(1)
  \/ Write_finish(1)
  \/ Read_start(1, target)
  \/ Read_finish(1)

SpecText == InitText /\ [][NextText]_vars

\* ====================================================== OpenAIClient.query
\* `retry_attempts = 10` and `backoff_seconds = 2.0`
retry_attempts == 10
backoff_seconds == 2

\* the tools ClaudeCodeCLI.execute_tool knows ("bash" stands for them), and a
\* name it does not know
KnownTools == {"bash"}
UnknownTools == {"nosuch"}
ToolNames == KnownTools
ToolCallLists == UNION {[1..k -> ToolNames] : k \in 0..MaxCalls}

\* a chat completion: message.content (None, empty or text), response.usage
\* (<<>> for None, else <<total_tokens>>), the names of message.tool_calls
Responses ==
  {r \in [content : {"None", "", "answer"},
          usage : {<<>>} \cup {<<n>> : n \in 1..MaxUsage},
          tool_calls : ToolCallLists,
          finish_reason : {"stop", "length", "tool_calls"}] :
     (r.finish_reason = "tool_calls") <=> (r.tool_calls # <<>>)}

\* an exception of chat.completions.create: status_code (0 when it has none)
\* and the lowered text of the exception
MessageTexts == {"rate limit reached", "max rpm exceeded", "connection error"}
Exceptions == [status_code : {0, 429, 500}, message_text : MessageTexts]

\* `phrase in message_text`
phrase_in(phrase, message_text) ==
  <<phrase, message_text>> \in {<<"rate limit", "rate limit reached">>,
                                <<"max rpm", "max rpm exceeded">>}

is_rate_limited_any_status(e) ==
  \/ e.status_code # 0
  \/ phrase_in("rate limit", e.message_text)
  \/ phrase_in("max rpm", e.message_text)

is_rate_limited(e) ==
  \/ e.status_code = 429
  \/ phrase_in("rate limit", e.message_text)
  \/ phrase_in("max rpm", e.message_text)

\* `range(max_iterations)` has an item for this index
range_has_next_inclusive(i, n) == i <= n

range_has_next(i, n) == i < n

\* `if response.usage: total_tokens += response.usage.total_tokens`
add_usage_overwrites(total, usage) == IF usage = <<>> THEN total ELSE usage[1]

add_usage(total, usage) == IF usage = <<>> THEN total ELSE total + usage[1]

\* `message.content or ""`
content_or_empty(content) == IF content = "None" THEN "" ELSE content

\* `attempt < retry_attempts - 1`
may_retry_inclusive(k) == k <= retry_attempts - 1

may_retry(k) == k < retry_attempts - 1

\* `delay = backoff_seconds * (2 ** attempt)`
backoff_delay_linear(k) == backoff_seconds * (k + 1)

backoff_delay(k) == backoff_seconds * (2 ^ k)

MaxIterationsContent == "Maximum tool call iterations reached"
NoResult == [kind |-> "none"]

\* the dict of the `return` after the loop
MaxIterationsResult(tokens, uses) ==
  [kind |-> "return", content |-> MaxIterationsContent, role |-> "assistant",
   total_tokens |-> tokens, tool_use_count |-> uses,
   finish_reason |-> "max_iterations"]

\* the dict of the `return` for a response without tool calls
FinalResult(response, tokens, uses) ==
  [kind |-> "return", content |-> content_or_empty(response.content),
   role |-> "assistant", total_tokens |-> tokens, tool_use_count |-> uses,
   finish_reason |-> response.finish_reason]

\* an exception leaves query: that of create, or that of the tool_executor
Raised(origin, e) == [kind |-> "raise", origin |-> origin, exception |-> e]
ToolException == [status_code |-> 0, message_text |-> "tool call failed"]

\* the tool calls of a response, with the ids the provider gives them
tool_calls_of(response, first_id) ==
  [k \in 1..Len(response.tool_calls) |->
     [id |-> first_id + k, name |-> response.tool_calls[k]]]

AssistantMessage(response, calls) ==
  [role |-> "assistant", content |-> content_or_empty(response.content),
   tool_calls |-> calls]

\* ClaudeCodeCLI.execute_tool when it returns: the formatted result of the
\* tool (an error of the tool's own included), or the unknown-tool text
UnknownToolText == "Unknown tool: "
execute_tool(tool_name) ==
  IF tool_name \in KnownTools THEN "result" ELSE UnknownToolText

\* execute_tool can raise: `tool.execute(**arguments)` with arguments the tool
\* does not take or lacks, or a tool that raises
execute_tool_may_raise_any(tool_name) == TRUE

execute_tool_may_raise(tool_name) == tool_name \in KnownTools

ToolMessage_without_id(tool_call) ==
  [role |-> "tool", tool_call_id |-> 0, name |-> tool_call.name,
   content |-> execute_tool(tool_call.name)]

ToolMessage(tool_call) ==
  [role |-> "tool", tool_call_id |-> tool_call.id, name |-> tool_call.name,
   content |-> execute_tool(tool_call.name)]

\* `for tool_call in message.tool_calls`
last_tool_call(calls) == calls[Len(calls)]

next_tool_call(calls) == Head(calls)

\* chat.completions.create returns; the response is processed up to the next
\* await (the first tool dispatch) or up to the return
Query_create_returns_step(response) ==
  /\ UNCHANGED <<guardVars, fanVars, toolVars>>
  /\ query_state = "request"
  /\ range_has_next(iteration, max_iterations)
  /\ LET calls == tool_calls_of(response, provider.calls_requested)
         tokens == add_usage(total_tokens, response.usage)
         uses == tool_use_count + Len(calls)
     IN  /\ total_tokens' = tokens
         /\ provider' = [provider EXCEPT
               !.responses = @ + 1,
               !.with_calls = @ + (IF calls # <<>> THEN 1 ELSE 0),
               !.usage = @ + (IF response.usage = <<>> THEN 0 ELSE response.usage[1]),
               !.calls_requested = @ + Len(calls),
               !.attempts = 0,
               !.slept = <<>>]
         /\ IF calls # <<>>
            THEN /\ tool_use_count' = uses
                 /\ api_messages' = Append(api_messages, AssistantMessage(response, calls))
                 /\ IF tool_executor
                    THEN /\ pending_calls' = calls
                         /\ query_state' = "dispatch"
                         /\ UNCHANGED query_result
                    ELSE \* `break`, then the return after the loop
                         /\ query_result' = MaxIterationsResult(tokens, uses)
                         /\ query_state' = "returned"
                         /\ UNCHANGED pending_calls
            ELSE /\ query_result' = FinalResult(response, tokens, tool_use_count)
                 /\ query_state' = "returned"
                 /\ UNCHANGED <<tool_use_count, api_messages, pending_calls>>
  /\ last_delay' = 0
  /\ UNCHANGED <<max_iterations, tool_executor, iteration, attempt>>

Query_create_returns(response) ==
  /\ Query_create_returns_step(response)
  /\ UNCHANGED sessionVars

\* chat.completions.create raises: sleep and retry, or re-raise
Query_create_raises_step(e) ==
  /\ UNCHANGED <<guardVars, fanVars, toolVars>>
  /\ query_state = "request"
  /\ range_has_next(iteration, max_iterations)
  /\ IF is_rate_limited(e) /\ may_retry(attempt)
     THEN /\ last_delay' = backoff_delay(attempt)
          /\ attempt' = attempt + 1
          /\ provider' = [provider EXCEPT
                !.attempts = @ + 1,
                !.slept = Append(@, backoff_delay(attempt))]
          /\ UNCHANGED <<query_state, query_result>>
     ELSE /\ query_result' = Raised("create", e)
          /\ query_state' = "raised"
          /\ provider' = [provider EXCEPT !.attempts = @ + 1]
          /\ UNCHANGED <<attempt, last_delay>>
  /\ UNCHANGED <<max_iterations, tool_executor, iteration, total_tokens,
                 tool_use_count, api_messages, pending_calls>>

Query_create_raises(e) ==
  /\ Query_create_raises_step(e)
  /\ UNCHANGED sessionVars

\* `await tool_executor(tool_name, arguments)` starts for the next tool call
Query_dispatch_start ==
  /\ UNCHANGED <<guardVars, fanVars, toolVars, sessionVars>>
  /\ query_state = "dispatch"
  /\ pending_calls # <<>>
  /\ query_state' = "executing"
  /\ provider' = [provider EXCEPT
        !.dispatched = @ + 1,
        !.dispatch_log = Append(@, next_tool_call(pending_calls).id)]
  /\ UNCHANGED <<max_iterations, tool_executor, iteration, attempt, total_tokens,
                 tool_use_count, api_messages, pending_calls, query_result,
                 last_delay>>

\* the tool_executor returns the result of the tool call
Query_dispatch_returns ==
  /\ UNCHANGED <<guardVars, fanVars, toolVars, sessionVars>>
  /\ query_state = "executing"
  /\ pending_calls # <<>>
  /\ api_messages' = Append(api_messages, ToolMessage(next_tool_call(pending_calls)))
  /\ pending_calls' = Tail(pending_calls)
  /\ IF Tail(pending_calls) = <<>>
     THEN /\ iteration' = iteration + 1
          /\ attempt' = 0
          /\ query_state' = "request"
     ELSE /\ query_state' = "dispatch"
          /\ UNCHANGED <<iteration, attempt>>
  /\ UNCHANGED <<max_iterations, tool_executor, total_tokens, tool_use_count,
                 query_result, last_delay, provider>>

\* the tool_executor raises: nothing in the loop catches it
Query_dispatch_raises ==
  /\ UNCHANGED <<guardVars, fanVars, toolVars, sessionVars>>
  /\ query_state = "executing"
  /\ pending_calls # <<>>
  /\ execute_tool_may_raise(next_tool_call(pending_calls).name)
  /\ query_result' = Raised("tool_executor", ToolException)
  /\ query_state' = "raised"
  /\ UNCHANGED <<max_iterations, tool_executor, iteration, attempt, total_tokens,
                 tool_use_count, api_messages, pending_calls, last_delay, provider>>

\* the for loop is exhausted: the return after the loop
Query_max_iterations ==
  /\ UNCHANGED <<guardVars, fanVars, toolVars, sessionVars>>
  /\ query_state = "request"
  /\ ~range_has_next(iteration, max_iterations)
  /\ query_result' = MaxIterationsResult(total_tokens, tool_use_count)
  /\ query_state' = "returned"
  /\ UNCHANGED <<max_iterations, tool_executor, iteration, attempt, total_tokens,
                 tool_use_count, api_messages, pending_calls, last_delay, provider>>

\* responses received, those with tool calls, their usage, the tool calls
\* requested and dispatched; for the model request under way, the calls of
\* create that failed and the delays slept; the ids of the tool calls the
\* executor was invoked with, in the order of the invocations
NoRun == [responses |-> 0, with_calls |-> 0, usage |-> 0,
          calls_requested |-> 0, dispatched |-> 0, attempts |-> 0, slept |-> <<>>,
          dispatch_log |-> <<>>]

\* the locals of query as it enters the loop
QueryEntered ==
  /\ query_state = "request"
  /\ iteration = 0
  /\ attempt = 0
  /\ total_tokens = 0
  /\ tool_use_count = 0
  /\ api_messages = <<>>
  /\ pending_calls = <<>>
  /\ query_result = NoResult
  /\ last_delay = 0
  /\ provider = NoRun

\* no tool call of the guard is in flight
GuardAtRest ==
  /\ target = "a.txt"
  /\ clock = 1
  /\ fs = [q \in {} |-> 0]
  /\ read_file_timestamps = [q \in {} |-> 0]
  /\ running = 0
  /\ call = [t \in Tasks |-> Idle]
  /\ last = NoEvent
  /\ read_paths = {}
  /\ seen = [t \in Tasks |-> -1]

InitLoop ==
  /\ GuardAtRest
  /\ max_iterations \in 0..MaxIterations
  /\ tool_executor \in BOOLEAN
  /\ QueryEntered
  /\ FanAtRest
  /\ SessionAtRest

NextLoop ==
  \/ \E response \in Responses : Query_create_returns(response)
  \/ \E e \in Exceptions : Query_create_raises(e)
  \/ Query_dispatch_start
  \/ Query_dispatch_returns
  \/ Query_dispatch_raises
  \/ Query_max_iterations

SpecLoop == InitLoop /\ [][NextLoop]_vars

\* the provider answers or fails, the executor returns or raises, a sleep ends
SpecLoopFair == SpecLoop /\ WF_vars(NextLoop)

\* ------------------------------------------- the loop, its provider counting
\* the run of SpecLoop with a tool executor, the provider counting every call
\* of chat.completions.create, answered or failed
Counted_create_returns(response) ==
  /\ Query_create_returns_step(response)
  /\ create_calls' = create_calls + 1
  /\ UNCHANGED <<agent_files, agents, load_state, conversation_history, executed>>

Counted_create_raises(e) ==
  /\ Query_create_raises_step(e)
  /\ create_calls' = create_calls + 1
  /\ UNCHANGED <<agent_files, agents, load_state, conversation_history, executed>>

RetryResponses ==
  {r \in [content : {"answer"},
          usage : {<<>>},
          tool_calls : {<<>>, <<"bash">>},
          finish_reason : {"stop", "tool_calls"}] :
     (r.finish_reason = "tool_calls") <=> (r.tool_calls # <<>>)}

InitRetry ==
  /\ GuardAtRest
  /\ max_iterations \in 0..MaxIterations
  /\ tool_executor = TRUE
  /\ QueryEntered
  /\ FanAtRest
  /\ SessionAtRest

NextRetry ==
  \/ \E response \in RetryResponses : Counted_create_returns(response)
  \/ \E e \in Exceptions : Counted_create_raises(e)
  \/ Query_dispatch_start
  \/ Query_dispatch_returns
  \/ Query_max_iterations

SpecRetry == InitRetry /\ [][NextRetry]_vars

\* ---------------------------------------------- the loop of ClaudeCodeCLI
\* run_query: the executor is execute_tool, the model names any tool
DispatchToolNames == KnownTools \cup UnknownTools
DispatchResponses ==
  {r \in [content : {"answer"},
          usage : {<<>>},
          tool_calls : UNION {[1..k -> DispatchToolNames] : k \in 0..MaxCalls},
          finish_reason : {"stop", "tool_calls"}] :
     (r.finish_reason = "tool_calls") <=> (r.tool_calls # <<>>)}

InitDispatch ==
  /\ GuardAtRest
  /\ max_iterations \in 1..MaxIterations
  /\ tool_executor = TRUE
  /\ QueryEntered
  /\ FanAtRest
  /\ SessionAtRest

NextDispatch ==
  \/ \E response \in DispatchResponses : Query_create_returns(response)
  \/ Query_dispatch_start
  \/ Query_dispatch_returns
  \/ Query_dispatch_raises
  \/ Query_max_iterations

SpecDispatch == InitDispatch /\ [][NextDispatch]_vars

\* ------------------------------------------------------ the session's turns
\* interactive_mode: run_query after run_query on the one conversation_history
MaxQueries == 2

UserMessage(user_input) == [role |-> "user", content |-> user_input]
AssistantReply(result) == [role |-> "assistant", content |-> result.content]

count_role(history, role) ==
  Cardinality({i \in 1..Len(history) : history[i].role = role})

\* run_query appends the user message and calls query, which enters its loop
\* (max_iterations=15 in the code, MaxIterations here)
Run_query_starts(user_input) ==
  /\ query_state = "none"
  /\ count_role(conversation_history, "user") < MaxQueries
  /\ conversation_history' = Append(conversation_history, UserMessage(user_input))
  /\ max_iterations' = MaxIterations
  /\ tool_executor' = TRUE
  /\ query_state' = "request"
  /\ iteration' = 0
  /\ attempt' = 0
  /\ total_tokens' = 0
  /\ tool_use_count' = 0
  /\ api_messages' = <<>>
  /\ pending_calls' = <<>>
  /\ query_result' = NoResult
  /\ last_delay' = 0
  /\ provider' = NoRun
  /\ UNCHANGED <<agent_files, agents, load_state, create_calls, executed>>
  /\ UNCHANGED <<guardVars, fanVars, toolVars>>

\* query returns: run_query appends the assistant message
Run_query_returns ==
  /\ query_state = "returned"
  /\ conversation_history' = Append(conversation_history, AssistantReply(query_result))
  /\ query_state' = "none"
  /\ UNCHANGED <<max_iterations, tool_executor, iteration, attempt, total_tokens,
                 tool_use_count, api_messages, pending_calls, query_result,
                 last_delay, provider>>
  /\ UNCHANGED <<agent_files, agents, load_state, create_calls, executed>>
  /\ UNCHANGED <<guardVars, fanVars, toolVars>>

\* query raises: the exception leaves run_query before the second append, and
\* interactive_mode prints it and asks for the next input
Run_query_raises ==
  /\ query_state = "raised"
  /\ query_state' = "none"
  /\ UNCHANGED <<max_iterations, tool_executor, iteration, attempt, total_tokens,
                 tool_use_count, api_messages, pending_calls, query_result,
                 last_delay, provider>>
  /\ UNCHANGED <<guardVars, fanVars, toolVars, sessionVars>>

TurnResponses ==
  {r \in [content : {"answer"},
          usage : {<<>>},
          tool_calls : {<<>>, <<"bash">>},
          finish_reason : {"stop", "tool_calls"}] :
     (r.finish_reason = "tool_calls") <=> (r.tool_calls # <<>>)}

TurnExceptions == {[status_code |-> 500, message_text |-> "connection error"]}

InitTurns ==
  /\ GuardAtRest
  /\ QueryAtRest
  /\ FanAtRest
  /\ SessionAtRest

NextTurns ==
  \/ \E user_input \in {"hi", "go on"} : Run_query_starts(user_input)
  \/ \E response \in TurnResponses : Query_create_returns(response)
  \/ \E e \in TurnExceptions : Query_create_raises(e)
  \/ Query_dispatch_start
  \/ Query_dispatch_returns
  \/ Query_dispatch_raises
  \/ Query_max_iterations
  \/ Run_query_returns
  \/ Run_query_raises

SpecTurns == InitTurns /\ [][NextTurns]_vars

\* ---------------------------------------------------------------- BashTool
\* `timeout = min(max(1, timeout), 600)`
min(a, b) == IF a < b THEN a ELSE b
max(a, b) == IF a > b THEN a ELSE b
BashTool_timeout(timeout) == min(max(1, timeout), 600)

\* a command that passes validate_bash_command: the seconds it runs and what
\* it prints and returns when it is left to finish
Durations == {0, 2, 601}
Timeouts == {0, 120, 1000}
Outputs ==
  {[stdout |-> "out", stderr |-> "", returncode |-> 0],
   [stdout |-> "", stderr |-> "err", returncode |-> 1]}
Commands ==
  {[duration |-> d, stdout |-> o.stdout, stderr |-> o.stderr,
    returncode |-> o.returncode] : d \in Durations, o \in Outputs}

TimedOutText(timeout) ==
  "Command execution timed out after " \o ToString(timeout) \o " seconds"

\* subprocess.run(command, timeout=timeout): TimeoutExpired when the command
\* runs longer than timeout seconds
TimeoutExpired(command, timeout) == command.duration > BashTool_timeout(timeout)

BashTool_execute_timeout_as_completed(command, timeout) ==
  [stdout |-> command.stdout, stderr |-> command.stderr,
   exit_code |-> command.returncode, interrupted |-> FALSE]

BashTool_execute(command, timeout) ==
  IF TimeoutExpired(command, timeout)
  THEN [stdout |-> "", stderr |-> TimedOutText(BashTool_timeout(timeout)),
        exit_code |-> 124, interrupted |-> TRUE]
  ELSE [stdout |-> command.stdout, stderr |-> command.stderr,
        exit_code |-> command.returncode, interrupted |-> FALSE]

AbortedText == "\n<error>Command was aborted before completion</error>"

BashTool_format_result(result) ==
  (IF result.stdout # "" THEN result.stdout ELSE "")
  \o (IF result.stderr # ""
      THEN (IF result.stdout # "" THEN "\n" ELSE "") \o result.stderr
      ELSE "")
  \o (IF result.interrupted THEN AbortedText ELSE "")

\* execute_tool for "bash": `self.bash_tool.format_result(result)`
BashToolMessage(tool_call, result) ==
  [role |-> "tool", tool_call_id |-> tool_call.id, name |-> tool_call.name,
   content |-> BashTool_format_result(result)]

BashEvent(tool_call, command, timeout, result) ==
  [tool |-> "bash", call_id |-> tool_call.id, command |-> command,
   timeout |-> timeout, result |-> result]

\* the tool_executor returns from a bash call whose command ran
Query_dispatch_bash_returns(command, timeout) ==
  /\ UNCHANGED <<fanVars, toolVars, sessionVars>>
  /\ query_state = "executing"
  /\ pending_calls # <<>>
  /\ next_tool_call(pending_calls).name = "bash"
  /\ LET tool_call == next_tool_call(pending_calls)
         result == BashTool_execute(command, timeout)
     IN  /\ api_messages' = Append(api_messages, BashToolMessage(tool_call, result))
         /\ last' = BashEvent(tool_call, command, timeout, result)
  /\ pending_calls' = Tail(pending_calls)
  /\ IF Tail(pending_calls) = <<>>
     THEN /\ iteration' = iteration + 1
          /\ attempt' = 0
          /\ query_state' = "request"
     ELSE /\ query_state' = "dispatch"
          /\ UNCHANGED <<iteration, attempt>>
  /\ UNCHANGED <<max_iterations, tool_executor, total_tokens, tool_use_count,
                 query_result, last_delay, provider>>
  /\ UNCHANGED <<fs, read_file_timestamps, clock, running, call, read_paths, target, seen>>

\* run_query with the bash tool: the model asks for shell commands
BashResponses ==
  {r \in [content : {"answer"},
          usage : {<<>>},
          tool_calls : UNION {[1..k -> {"bash"}] : k \in 0..MaxCalls},
          finish_reason : {"stop", "tool_calls"}] :
     (r.finish_reason = "tool_calls") <=> (r.tool_calls # <<>>)}

InitBash ==
  /\ GuardAtRest
  /\ max_iterations \in 1..MaxIterations
  /\ tool_executor = TRUE
  /\ QueryEntered
  /\ FanAtRest
  /\ SessionAtRest

NextBash ==
  \/ \E response \in BashResponses : Query_create_returns(response)
  \/ Query_dispatch_start
  \/ \E command \in Commands, timeout \in Timeouts :
        Query_dispatch_bash_returns(command, timeout)
  \/ Query_dispatch_raises
  \/ Query_max_iterations

SpecBash == InitBash /\ [][NextBash]_vars

\* ------------------------------------------- the fan-out of AgentTool.execute
\* AgentTool.execute with parallel_count > 1: execute_parallel_tasks runs
\* num_agents coroutines execute_agent_task under asyncio.gather, then
\* synthesize_results makes one query over their results.
MaxAgents == 3
MaxAgentTools == 1

FanStates == {"none", "entered", "gathering", "collected", "synthesizing", "done", "raised"}

\* range(num_agents)
AgentIndexes(n) == 0..(n - 1)

\* AgentResult; content is the sequence of the pieces of text it is made of;
\* duration_ms, a wall-clock difference nothing reads, is left out
AgentResult(agent_index, content, uses, tokens) ==
  [kind |-> "AgentResult", agent_index |-> agent_index, content |-> content,
   tool_use_count |-> uses, tokens |-> tokens]

\* what the query of a participant or of the synthesis raises: the exception of
\* create that is not retried, or that of the tool executor
FanExceptions == {[status_code |-> 500, message_text |-> "connection error"],
                  ToolException}
ExceptionResult(e) == [kind |-> "Exception", exception |-> e]

\* `isinstance(result, Exception)`
isinstance_Exception(result) == result.kind = "Exception"

\* f"Agent execution failed: {result}"
failed_content(e) == <<"Agent execution failed: ", e.message_text>>

\* the coroutine execute_agent_task(agent_index = i) as gather starts it
TaskStarted == [state |-> "running", tool_use_count |-> 0, result |-> [kind |-> "none"]]

\* gather(return_exceptions=True) returns when every awaitable has ended
gather_done_first_exception(ts) ==
  \/ \E i \in DOMAIN ts : ts[i].state = "raised"
  \/ \A i \in DOMAIN ts : ts[i].state # "running"

gather_done(ts) == \A i \in DOMAIN ts : ts[i].state # "running"

\* the list gather returns: the outcome of tasks[k] at position k
gather_results(ts, n) == [k \in 1..n |-> ts[k - 1].result]

\* the loop `for i, result in enumerate(results)` of execute_parallel_tasks
valid_results_without_failed(results) ==
  SelectSeq(results, LAMBDA r : ~isinstance_Exception(r))

valid_results(results) ==
  [k \in 1..Len(results) |->
     IF isinstance_Exception(results[k])
     THEN AgentResult(k - 1, failed_content(results[k].exception), 0, 0)
     ELSE results[k]]

\* sorted(agent_results, key=lambda r: r.agent_index): a stable sort
RECURSIVE insert_by_agent_index(_, _)
insert_by_agent_index(r, sorted_results) ==
  IF sorted_results = <<>> THEN <<r>>
  ELSE IF sorted_results[Len(sorted_results)].agent_index <= r.agent_index
       THEN Append(sorted_results, r)
       ELSE Append(insert_by_agent_index(r, SubSeq(sorted_results, 1, Len(sorted_results) - 1)),
                   sorted_results[Len(sorted_results)])

unsorted(results) == results

RECURSIVE sorted_by_agent_index(_)
sorted_by_agent_index(results) ==
  IF results = <<>> THEN <<>>
  ELSE insert_by_agent_index(results[Len(results)],
         sorted_by_agent_index(SubSeq(results, 1, Len(results) - 1)))

\* results_text: f"== AGENT {result.agent_index + 1} RESPONSE ==\n{result.content}\n"
results_text(results) ==
  LET in_order == sorted_by_agent_index(results)
  IN [k \in 1..Len(in_order) |->
        [agent_number |-> in_order[k].agent_index + 1, content |-> in_order[k].content]]

\* sum(r.tool_use_count for r in agent_results), sum(r.tokens for r in agent_results)
sum_tool_use_count_of_first(results) == results[1].tool_use_count

RECURSIVE sum_tool_use_count(_)
sum_tool_use_count(results) ==
  IF results = <<>> THEN 0
  ELSE results[1].tool_use_count + sum_tool_use_count(Tail(results))

RECURSIVE sum_tokens(_)
sum_tokens(results) ==
  IF results = <<>> THEN 0 ELSE results[1].tokens + sum_tokens(Tail(results))

\* a participant's loop dispatches a tool call
Agent_step(i) ==
  /\ fan_state = "gathering"
  /\ tasks[i].state = "running"
  /\ tasks[i].tool_use_count < MaxAgentTools
  /\ tasks' = [tasks EXCEPT ![i].tool_use_count = @ + 1]
  /\ UNCHANGED <<num_agents, fan_state, completion_order, agent_results,
                 synthesis_query, synthesis_result, fan_result>>
  /\ UNCHANGED <<guardVars, loopVars, toolVars, sessionVars>>

\* a participant's query returns and execute_agent_task returns its AgentResult
Agent_returns(i, content, tokens) ==
  /\ fan_state = "gathering"
  /\ tasks[i].state = "running"
  /\ tasks' = [tasks EXCEPT ![i].state = "returned",
                            ![i].result = AgentResult(i, <<content>>,
                                                      tasks[i].tool_use_count, tokens)]
  /\ completion_order' = Append(completion_order, i)
  /\ UNCHANGED <<num_agents, fan_state, agent_results, synthesis_query,
                 synthesis_result, fan_result>>
  /\ UNCHANGED <<guardVars, loopVars, toolVars, sessionVars>>

\* a participant's query raises and the exception leaves execute_agent_task
Agent_raises(i, e) ==
  /\ fan_state = "gathering"
  /\ tasks[i].state = "running"
  /\ tasks' = [tasks EXCEPT ![i].state = "raised", ![i].result = ExceptionResult(e)]
  /\ completion_order' = Append(completion_order, i)
  /\ UNCHANGED <<num_agents, fan_state, agent_results, synthesis_query,
                 synthesis_result, fan_result>>
  /\ UNCHANGED <<guardVars, loopVars, toolVars, sessionVars>>

\* gather returns and execute_parallel_tasks returns valid_results
Gather_returns ==
  /\ fan_state = "gathering"
  /\ gather_done(tasks)
  /\ agent_results' = valid_results(gather_results(tasks, num_agents))
  /\ fan_state' = "collected"
  /\ UNCHANGED <<num_agents, tasks, completion_order, synthesis_query,
                 synthesis_result, fan_result>>
  /\ UNCHANGED <<guardVars, loopVars, toolVars, sessionVars>>

\* synthesize_results builds its prompt and calls query
Synthesize_start ==
  /\ fan_state = "collected"
  /\ synthesis_query' = [called |-> TRUE, messages |-> results_text(agent_results),
                         tools |-> "None", tool_executor |-> "None",
                         max_iterations |-> 1]
  /\ fan_state' = "synthesizing"
  /\ UNCHANGED <<num_agents, tasks, completion_order, agent_results,
                 synthesis_result, fan_result>>
  /\ UNCHANGED <<guardVars, loopVars, toolVars, sessionVars>>

\* the query of the synthesis returns; AgentTool.execute returns its dict
Synthesize_returns(content, tokens) ==
  /\ fan_state = "synthesizing"
  /\ synthesis_result' = AgentResult(-1, <<content>>, 0, tokens)
  /\ fan_result' = [kind |-> "return", content |-> synthesis_result'.content,
                    tool_use_count |-> sum_tool_use_count(agent_results),
                    tokens |-> sum_tokens(agent_results) + synthesis_result'.tokens,
                    parallel_agents |-> num_agents, synthesis |-> TRUE]
  /\ fan_state' = "done"
  /\ UNCHANGED <<num_agents, tasks, completion_order, agent_results, synthesis_query>>
  /\ UNCHANGED <<guardVars, loopVars, toolVars, sessionVars>>

\* the query of the synthesis raises; the exception leaves AgentTool.execute
Synthesize_raises(e) ==
  /\ fan_state = "synthesizing"
  /\ fan_result' = Raised("synthesize_results", e)
  /\ fan_state' = "raised"
  /\ UNCHANGED <<num_agents, tasks, completion_order, agent_results, synthesis_query,
                 synthesis_result>>
  /\ UNCHANGED <<guardVars, loopVars, toolVars, sessionVars>>

AgentContents == {"answer"}
SynthesisContents == {"synthesis"}

InitFanout ==
  /\ SessionAtRest
  /\ GuardAtRest
  /\ QueryAtRest
  /\ num_agents \in 2..MaxAgents
  /\ fan_state = "gathering"
  /\ tasks = [i \in AgentIndexes(num_agents) |-> TaskStarted]
  /\ completion_order = <<>>
  /\ agent_results = <<>>
  /\ synthesis_query = [called |-> FALSE]
  /\ synthesis_result = [kind |-> "none"]
  /\ fan_result = [kind |-> "none"]
  /\ agent_tools = <<"*">>
  /\ functions = <<>>
  /\ task_functions = <<>>

NextFanout ==
  \/ \E i \in AgentIndexes(num_agents) : Agent_step(i)
  \/ \E i \in AgentIndexes(num_agents), content \in AgentContents, tokens \in 0..MaxUsage :
       Agent_returns(i, content, tokens)
  \/ \E i \in AgentIndexes(num_agents), e \in FanExceptions : Agent_raises(i, e)
  \/ Gather_returns
  \/ Synthesize_start
  \/ \E content \in SynthesisContents, tokens \in 0..MaxUsage :
       Synthesize_returns(content, tokens)
  \/ \E e \in FanExceptions : Synthesize_raises(e)

SpecFanout == InitFanout /\ [][NextFanout]_vars

\* every coroutine that can run is run, the provider answers or fails
SpecFanoutFair == SpecFanout /\ WF_vars(NextFanout)

\* ------------------------------------------------- synthesize_results alone
\* synthesize_results is given a list of AgentResults of the agent indexes
\* 0..n-1 in any order
ResultLists(n) ==
  {[k \in 1..n |-> AgentResult(order[k], content[order[k]], 0, 0)] :
     order \in {f \in [1..n -> AgentIndexes(n)] : \A a, b \in 1..n : a # b => f[a] # f[b]},
     content \in [AgentIndexes(n) -> {<<"answer">>} \cup {failed_content(ToolException)}]}

InitSynthesis ==
  /\ SessionAtRest
  /\ GuardAtRest
  /\ QueryAtRest
  /\ num_agents \in 2..MaxAgents
  /\ fan_state = "collected"
  /\ tasks = <<>>
  /\ completion_order = <<>>
  /\ agent_results \in ResultLists(num_agents)
  /\ synthesis_query = [called |-> FALSE]
  /\ synthesis_result = [kind |-> "none"]
  /\ fan_result = [kind |-> "none"]
  /\ agent_tools = <<"*">>
  /\ functions = <<>>
  /\ task_functions = <<>>

NextSynthesis ==
  \/ Synthesize_start
  \/ \E content \in SynthesisContents, tokens \in 0..MaxUsage :
       Synthesize_returns(content, tokens)
  \/ \E e \in FanExceptions : Synthesize_raises(e)

SpecSynthesis == InitSynthesis /\ [][NextSynthesis]_vars

\* ------------------------------------- the synthesis with its query's steps
\* synthesize_results with the steps of OpenAIClient.query it awaits: the
\* arguments it gives to query, then what query does with them.
synthesis_tools == "None"
synthesis_tool_executor_given == TRUE

synthesis_tool_executor == FALSE
synthesis_max_iterations == 1

\* synthesize_results builds its prompt and calls query, which enters its loop
Synthesis_query_enters ==
  /\ fan_state = "collected"
  /\ query_state = "none"
  /\ synthesis_query' = [called |-> TRUE, messages |-> results_text(agent_results),
                         tools |-> synthesis_tools, tool_executor |-> "None",
                         max_iterations |-> synthesis_max_iterations]
  /\ fan_state' = "synthesizing"
  /\ max_iterations' = synthesis_max_iterations
  /\ tool_executor' = synthesis_tool_executor
  /\ query_state' = "request"
  /\ iteration' = 0
  /\ attempt' = 0
  /\ total_tokens' = 0
  /\ tool_use_count' = 0
  /\ api_messages' = <<>>
  /\ pending_calls' = <<>>
  /\ query_result' = NoResult
  /\ last_delay' = 0
  /\ provider' = NoRun
  /\ UNCHANGED <<num_agents, tasks, completion_order, agent_results,
                 synthesis_result, fan_result>>
  /\ UNCHANGED <<guardVars, toolVars, sessionVars>>

\* query returns its dict; synthesize_results returns its AgentResult and
\* AgentTool.execute its dict
Synthesis_query_returns ==
  /\ fan_state = "synthesizing"
  /\ query_state = "returned"
  /\ synthesis_result' = AgentResult(-1, <<query_result.content>>, 0,
                                     query_result.total_tokens)
  /\ fan_result' = [kind |-> "return", content |-> synthesis_result'.content,
                    tool_use_count |-> sum_tool_use_count(agent_results),
                    tokens |-> sum_tokens(agent_results) + synthesis_result'.tokens,
                    parallel_agents |-> num_agents, synthesis |-> TRUE]
  /\ fan_state' = "done"
  /\ query_state' = "none"
  /\ UNCHANGED <<num_agents, tasks, completion_order, agent_results, synthesis_query>>
  /\ UNCHANGED <<max_iterations, tool_executor, iteration, attempt, total_tokens,
                 tool_use_count, api_messages, pending_calls, query_result,
                 last_delay, provider>>
  /\ UNCHANGED <<guardVars, toolVars, sessionVars>>

\* query raises; the exception leaves synthesize_results and AgentTool.execute
Synthesis_query_raises ==
  /\ fan_state = "synthesizing"
  /\ query_state = "raised"
  /\ fan_result' = Raised("synthesize_results", query_result.exception)
  /\ fan_state' = "raised"
  /\ query_state' = "none"
  /\ UNCHANGED <<num_agents, tasks, completion_order, agent_results, synthesis_query,
                 synthesis_result>>
  /\ UNCHANGED <<max_iterations, tool_executor, iteration, attempt, total_tokens,
                 tool_use_count, api_messages, pending_calls, query_result,
                 last_delay, provider>>
  /\ UNCHANGED <<guardVars, toolVars, sessionVars>>

\* the session has a file, read or not, when the synthesis starts; the
\* participants' results are those of two agents, with the counts they report
PassResults ==
  {[k \in 1..2 |-> AgentResult(k - 1, <<"answer">>, uses[k], tokens[k])] :
     uses \in [1..2 -> 0..MaxAgentTools], tokens \in [1..2 -> 0..MaxUsage]}
  \cup {<<AgentResult(0, failed_content(ToolException), 0, 0),
          AgentResult(1, <<"answer">>, uses, tokens)>> :
          uses \in 0..MaxAgentTools, tokens \in 0..MaxUsage}

InitSynthesisPass ==
  /\ SessionAtRest
  /\ target = "a.txt"
  /\ clock = 1
  /\ fs = [q \in {target} |-> File(<<"a">>, 1)]
  /\ read_file_timestamps \in {EmptyDict, [q \in {target} |-> 1]}
  /\ running = 0
  /\ call = [t \in Tasks |-> Idle]
  /\ last = NoEvent
  /\ read_paths = DOMAIN read_file_timestamps
  /\ seen = [t \in Tasks |-> IF t = 1 /\ read_paths # {} THEN 1 ELSE -1]
  /\ QueryAtRest
  /\ num_agents = 2
  /\ fan_state = "collected"
  /\ tasks = <<>>
  /\ completion_order = <<>>
  /\ agent_results \in PassResults
  /\ synthesis_query = [called |-> FALSE]
  /\ synthesis_result = [kind |-> "none"]
  /\ fan_result = [kind |-> "none"]
  /\ agent_tools = <<"*">>
  /\ functions = <<>>
  /\ task_functions = <<>>

NextSynthesisPass ==
  \/ Synthesis_query_enters
  \/ \E response \in Responses : Query_create_returns(response)
  \/ \E e \in Exceptions : Query_create_raises(e)
  \/ Synthesis_query_returns
  \/ Synthesis_query_raises

SpecSynthesisPass == InitSynthesisPass /\ [][NextSynthesisPass]_vars

\* ------------------------------------------ the tools a fan-out is given
\* AgentTool.execute from its entry: the agent's allowed tools filter the
\* caller's tool schemas, and every participant's query is given the outcome.
\* A tool schema is modelled by its type and the name of its function.
Schema(name) == [type |-> "function", name |-> name]
FullToolSet == <<Schema("bash"), Schema("edit"), Schema("read")>>
AgentToolLists == {<<"*">>, <<"bash">>, <<"read", "bash">>, <<"*", "bash">>, <<"glob">>}

\* set(agent_config.tools)
allowed_names(tools) == {tools[k] : k \in 1..Len(tools)}

\* `agent_config.tools != ["*"]`
is_restricted_unless_any_wildcard(tools) == "*" \notin allowed_names(tools)

is_restricted(tools) == tools # <<"*">>

\* agent_functions of AgentTool.execute
agent_functions_of(tools, fns) ==
  IF is_restricted(tools) /\ fns # <<>>
  THEN SelectSeq(fns, LAMBDA f : f.name \in allowed_names(tools))
  ELSE fns

\* AgentTool.execute filters the tools and execute_parallel_tasks creates the
\* coroutines, each with the same functions
AgentTool_starts ==
  /\ fan_state = "entered"
  /\ tasks' = [i \in AgentIndexes(num_agents) |-> TaskStarted]
  /\ task_functions' = [i \in AgentIndexes(num_agents) |->
                          agent_functions_of(agent_tools, functions)]
  /\ fan_state' = "gathering"
  /\ UNCHANGED <<num_agents, completion_order, agent_results, synthesis_query,
                 synthesis_result, fan_result, agent_tools, functions>>
  /\ UNCHANGED <<guardVars, loopVars, sessionVars>>

InitAgentTool ==
  /\ SessionAtRest
  /\ GuardAtRest
  /\ QueryAtRest
  /\ num_agents \in 2..MaxAgents
  /\ fan_state = "entered"
  /\ tasks = <<>>
  /\ completion_order = <<>>
  /\ agent_results = <<>>
  /\ synthesis_query = [called |-> FALSE]
  /\ synthesis_result = [kind |-> "none"]
  /\ fan_result = [kind |-> "none"]
  /\ agent_tools \in AgentToolLists
  /\ functions \in {FullToolSet, <<>>}
  /\ task_functions = <<>>

NextAgentTool ==
  \/ AgentTool_starts
  \/ \E i \in AgentIndexes(num_agents), content \in AgentContents, tokens \in 0..MaxUsage :
       Agent_returns(i, content, tokens)
  \/ \E i \in AgentIndexes(num_agents), e \in FanExceptions : Agent_raises(i, e)
  \/ Gather_returns

SpecAgentTool == InitAgentTool /\ [][NextAgentTool]_vars

\* ------------------------------------ the tool calls of the participants
\* The tool_executor every participant gets is ClaudeCodeCLI.execute_tool
\* (function_executor=self.execute_tool), whatever tools its query was given;
\* query hands it every tool call of a response by the name the response gives.
ExecuteToolNames == {"bash", "edit", "read", "agent"}
ModelToolNames == ExecuteToolNames \cup {"nosuch"}

\* execute_tool runs the tool of that name; for any other name it returns the
\* unknown-tool text
execute_tool_runs(tool_name) == tool_name \in ExecuteToolNames

\* a response of participant i's query holds a tool call and query awaits
\* tool_executor(tool_name, arguments)
Agent_calls_tool(i, tool_name) ==
  /\ fan_state = "gathering"
  /\ tasks[i].state = "running"
  /\ tasks[i].tool_use_count < MaxAgentTools
  /\ tasks' = [tasks EXCEPT ![i].tool_use_count = @ + 1]
  /\ executed' = IF execute_tool_runs(tool_name)
                 THEN executed \cup {<<i, tool_name>>}
                 ELSE executed
  /\ UNCHANGED <<num_agents, fan_state, completion_order, agent_results,
                 synthesis_query, synthesis_result, fan_result>>
  /\ UNCHANGED <<agent_files, agents, load_state, create_calls, conversation_history>>
  /\ UNCHANGED <<guardVars, loopVars, toolVars>>

InitAllowlist ==
  /\ SessionAtRest
  /\ GuardAtRest
  /\ QueryAtRest
  /\ num_agents = 2
  /\ fan_state = "entered"
  /\ tasks = <<>>
  /\ completion_order = <<>>
  /\ agent_results = <<>>
  /\ synthesis_query = [called |-> FALSE]
  /\ synthesis_result = [kind |-> "none"]
  /\ fan_result = [kind |-> "none"]
  /\ agent_tools \in {<<"*">>, <<"bash">>, <<"read", "bash">>}
  /\ functions = FullToolSet
  /\ task_functions = <<>>

NextAllowlist ==
  \/ AgentTool_starts
  \/ \E i \in AgentIndexes(num_agents), tool_name \in ModelToolNames :
       Agent_calls_tool(i, tool_name)
  \/ \E i \in AgentIndexes(num_agents) : Agent_returns(i, "answer", 0)
  \/ \E i \in AgentIndexes(num_agents), e \in FanExceptions : Agent_raises(i, e)
  \/ Gather_returns

SpecAllowlist == InitAllowlist /\ [][NextAllowlist]_vars

\* ------------------------------------------ the event loop under a fan-out
\* Who holds the event loop while the participants of a gather run. A
\* coroutine keeps the loop until it suspends or ends. In OpenAIClient.query
\* `self.client.chat.completions.create(...)` is a call of the synchronous
\* client and `await tool_executor(...)` awaits coroutines whose bodies use
\* open() and subprocess.run() and never suspend; the one suspension of a
\* participant is `await asyncio.sleep(delay)` of the rate-limit backoff.
\* tasks[i].state: "created" (wrapped by gather, not yet run), "create" (in
\* the model request), "tool" (in a tool call), "sleep" (suspended in the
\* backoff), "returned", "raised".
MaxSleeps == 1

ScheduledTask == [state |-> "created", tool_use_count |-> 0, sleeps |-> 0]

\* the event loop runs a task that is ready: one not yet started, or one whose
\* sleep is over; the task goes on to its model request
Loop_runs(i) ==
  /\ fan_state = "gathering"
  /\ running = 0
  /\ tasks[i].state \in {"created", "sleep"}
  /\ tasks' = [tasks EXCEPT ![i].state = "create"]
  /\ running' = i + 1
  /\ UNCHANGED <<fs, read_file_timestamps, clock, call, last, read_paths, target, seen>>
  /\ UNCHANGED <<loopVars, toolVars, sessionVars>>
  /\ UNCHANGED <<num_agents, fan_state, completion_order, agent_results,
                 synthesis_query, synthesis_result, fan_result>>

\* create returns a response with a tool call: the task goes on to dispatch it
Task_create_returns_tool_call(i) ==
  /\ running = i + 1
  /\ tasks[i].state = "create"
  /\ tasks[i].tool_use_count < MaxAgentTools
  /\ tasks' = [tasks EXCEPT ![i].state = "tool", ![i].tool_use_count = @ + 1]
  /\ UNCHANGED <<guardVars, loopVars, toolVars, sessionVars>>
  /\ UNCHANGED <<num_agents, fan_state, completion_order, agent_results,
                 synthesis_query, synthesis_result, fan_result>>

\* the tool call returns: the task goes on to its next model request
Task_tool_returns(i) ==
  /\ running = i + 1
  /\ tasks[i].state = "tool"
  /\ tasks' = [tasks EXCEPT ![i].state = "create"]
  /\ UNCHANGED <<guardVars, loopVars, toolVars, sessionVars>>
  /\ UNCHANGED <<num_agents, fan_state, completion_order, agent_results,
                 synthesis_query, synthesis_result, fan_result>>

\* create raises a rate limit: the task suspends in asyncio.sleep
Task_create_rate_limited(i) ==
  /\ running = i + 1
  /\ tasks[i].state = "create"
  /\ tasks[i].sleeps < MaxSleeps
  /\ tasks' = [tasks EXCEPT ![i].state = "sleep", ![i].sleeps = @ + 1]
  /\ running' = 0
  /\ UNCHANGED <<fs, read_file_timestamps, clock, call, last, read_paths, target, seen>>
  /\ UNCHANGED <<loopVars, toolVars, sessionVars>>
  /\ UNCHANGED <<num_agents, fan_state, completion_order, agent_results,
                 synthesis_query, synthesis_result, fan_result>>

\* the task ends: create returns a response without tool calls, or create or
\* the tool executor raises
Task_ends(i, outcome) ==
  /\ running = i + 1
  /\ \/ tasks[i].state = "create"
     \/ tasks[i].state = "tool" /\ outcome = "raised"
  /\ tasks' = [tasks EXCEPT ![i].state = outcome]
  /\ completion_order' = Append(completion_order, i)
  /\ running' = 0
  /\ UNCHANGED <<fs, read_file_timestamps, clock, call, last, read_paths, target, seen>>
  /\ UNCHANGED <<loopVars, toolVars, sessionVars>>
  /\ UNCHANGED <<num_agents, fan_state, agent_results, synthesis_query,
                 synthesis_result, fan_result>>

InitSchedule ==
  /\ SessionAtRest
  /\ GuardAtRest
  /\ QueryAtRest
  /\ num_agents \in 2..MaxAgents
  /\ fan_state = "gathering"
  /\ tasks = [i \in AgentIndexes(num_agents) |-> ScheduledTask]
  /\ completion_order = <<>>
  /\ agent_results = <<>>
  /\ synthesis_query = [called |-> FALSE]
  /\ synthesis_result = [kind |-> "none"]
  /\ fan_result = [kind |-> "none"]
  /\ agent_tools = <<"*">>
  /\ functions = <<>>
  /\ task_functions = <<>>

NextSchedule ==
  \/ \E i \in AgentIndexes(num_agents) : Loop_runs(i)
  \/ \E i \in AgentIndexes(num_agents) : Task_create_returns_tool_call(i)
  \/ \E i \in AgentIndexes(num_agents) : Task_tool_returns(i)
  \/ \E i \in AgentIndexes(num_agents) : Task_create_rate_limited(i)
  \/ \E i \in AgentIndexes(num_agents), outcome \in {"returned", "raised"} :
       Task_ends(i, outcome)

SpecSchedule == InitSchedule /\ [][NextSchedule]_vars

\* ------------------------------------------------------------ load_all_agents
\* A file of .claude/agents as scan_agent_files meets it: open or read raises;
\* or the frontmatter is not a mapping, so that frontmatter.get raises; or it
\* is a mapping (empty when there is no frontmatter or the YAML is malformed)
\* with the values of its keys, "" and <<>> for a missing or empty one.
MaxAgentFiles == 2

Unreadable ==
  [opens |-> FALSE, mapping |-> FALSE, agent_type |-> "", when_to_use |-> "",
   allowed_tools |-> <<>>]
NotMapping ==
  [opens |-> TRUE, mapping |-> FALSE, agent_type |-> "", when_to_use |-> "",
   allowed_tools |-> <<>>]
Frontmatter(agent_type, when_to_use, allowed_tools) ==
  [opens |-> TRUE, mapping |-> TRUE, agent_type |-> agent_type,
   when_to_use |-> when_to_use, allowed_tools |-> allowed_tools]

AgentFiles ==
  {Unreadable, NotMapping} \cup
  {Frontmatter(t, w, tools) : t \in {"", "general-purpose", "reviewer"},
                              w \in {"", "text"},
                              tools \in {<<>>, <<"bash">>, <<"">>}}

AgentConfig(agent_type, when_to_use, tools, location) ==
  [agent_type |-> agent_type, when_to_use |-> when_to_use, tools |-> tools,
   location |-> location]

\* the names of allowed-tools, split and stripped, without the empty ones
nonempty_name(t) == t # ""
parse_tools_list(tools_input) == SelectSeq(tools_input, nonempty_name)

GeneralPurposeAgent ==
  AgentConfig("general-purpose", "General-purpose agent", <<"*">>, "built-in")

get_built_in_agents_none == <<>>

get_built_in_agents == <<GeneralPurposeAgent>>

\* the body of `for file in files`: TRUE when the file yields an AgentConfig
file_is_agent(file) ==
  /\ file.opens
  /\ file.mapping
  /\ file.agent_type # ""
  /\ file.when_to_use # ""

agent_of_file(file) ==
  AgentConfig(file.agent_type, file.when_to_use,
              IF parse_tools_list(file.allowed_tools) = <<>>
              THEN <<"*">> ELSE parse_tools_list(file.allowed_tools),
              "project")

\* scan_agent_files: the next file of the walk is loaded or passed over
Scan_agent_file ==
  /\ UNCHANGED <<guardVars, loopVars, fanVars, toolVars>>
  /\ load_state = "scanning"
  /\ agent_files # <<>>
  /\ agents' = IF file_is_agent(Head(agent_files))
              THEN Append(agents, agent_of_file(Head(agent_files)))
              ELSE agents
  /\ agent_files' = Tail(agent_files)
  /\ UNCHANGED <<load_state, create_calls, conversation_history, executed>>

\* `agents.extend(project_agents)`, `return agents`
Load_all_agents_returns ==
  /\ UNCHANGED <<guardVars, loopVars, fanVars, toolVars>>
  /\ load_state = "scanning"
  /\ agent_files = <<>>
  /\ load_state' = "loaded"
  /\ UNCHANGED <<agent_files, agents, create_calls, conversation_history, executed>>

\* find_agent_by_type: the first agent of the list with the type, <<>> for None
find_agent_by_type(list, agent_type) ==
  LET found == {i \in 1..Len(list) : list[i].agent_type = agent_type}
  IN  IF found = {} THEN <<>>
      ELSE <<list[CHOOSE i \in found : \A j \in found : i <= j]>>

InitAgents ==
  /\ GuardAtRest
  /\ QueryAtRest
  /\ FanAtRest
  /\ agent_files \in UNION {[1..k -> AgentFiles] : k \in 0..MaxAgentFiles}
  /\ agents = get_built_in_agents
  /\ load_state = "scanning"
  /\ create_calls = 0
  /\ conversation_history = <<>>
  /\ executed = {}

NextAgents ==
  \/ Scan_agent_file
  \/ Load_all_agents_returns

SpecAgents == InitAgents /\ [][NextAgents]_vars

\* ================================================================== claims
\* All the positions (overlapping ones included) at which sub occurs in s
Positions(s, sub) == {i \in 1..Len(s) : IsAt(s, sub, i)}

\* s with the span of length n at position i replaced by new
SpanReplaced(s, i, n, new) == SubSeq(s, 1, i - 1) \o new \o SubSeq(s, i + n, Len(s))

\* a request that reaches the ledger checks of edit validation
RealEdit(old, new) == old # new /\ old # <<>>

\* C1: an edit or write overwrites an existing file only if, at the moment of
\* the overwrite, the ledger holds a timestamp for the path that is not older
\* than the file's modification time.
C1_OverwriteOnlyIfFresh ==
  [][\A t \in Tasks :
       ((Edit_write(t) \/ Write_write(t)) /\ call[t].pre.exists /\ exists(call[t].path))
       => /\ has_key(read_file_timestamps, call[t].path)
          /\ read_file_timestamps[call[t].path] >= getmtime(call[t].path)]_vars

\* What the guard does ensure (C1): the timestamp was not older when the call
\* validated, and it still is not when no other process touched the file since.
C1_FreshWhenValidated ==
  \A t \in Tasks :
    (call[t].phase = "validated" /\ call[t].pre.exists)
    => /\ call[t].pre.has_entry
       /\ call[t].pre.entry >= call[t].pre.mtime
       /\ (~call[t].disturbed =>
             /\ has_key(read_file_timestamps, call[t].path)
             /\ read_file_timestamps[call[t].path] >= getmtime(call[t].path))

\* an edit or write has just returned r, and nothing has happened since
EditOrWrite(r) ==
  /\ r.tool \in {"edit", "write"}
  /\ (r.tool = "edit" => RealEdit(r.old, r.new))

\* the path of r is as the call found it
Untouched(r) ==
  /\ exists(r.path) = r.pre.exists
  /\ r.pre.exists => (fs[r.path].content = r.pre.content /\ getmtime(r.path) = r.pre.mtime)
  /\ has_key(read_file_timestamps, r.path) = r.pre.has_entry
  /\ r.pre.has_entry => read_file_timestamps[r.path] = r.pre.entry

\* C2 as stated: on an existing file that no read of the session has returned,
\* every edit and write fails with the unread error and leaves the file alone.
C2_UnreadAlwaysRejected ==
  (/\ last.tool \in {"edit", "write"}
   /\ last.pre.exists
   /\ last.path \notin read_paths)
  => (~last.success /\ last.error = ErrUnread /\ Untouched(last))

\* C2, amended: on an existing file that is not a notebook and has no ledger
\* entry, every write, and every edit whose old_text is not empty and differs
\* from new_text, fails with the unread error whatever the content; neither
\* the file nor the ledger changes.
C2_NoEntryRejected ==
  (/\ EditOrWrite(last)
   /\ last.pre.exists
   /\ ~endswith_ipynb(last.path)
   /\ ~last.pre.has_entry)
  => (~last.success /\ last.error = ErrUnread /\ Untouched(last))

\* C2's case: an edit whose old_text occurs exactly once was rejected as unread
C2_Witness ==
  /\ last.tool = "edit"
  /\ last.error = ErrUnread
  /\ ~last.pre.has_entry
  /\ Cardinality(Positions(last.pre.content, last.old)) = 1
  /\ fs[last.path].content = last.pre.content

\* C3: once a file that was read has a modification time past the ledger's
\* timestamp, every write of it, and every edit of it whose old_text is not
\* empty and differs from new_text, fails with the stale-read error.
C3_StaleRejected ==
  (/\ EditOrWrite(last)
   /\ last.pre.exists
   /\ ~endswith_ipynb(last.path)
   /\ last.path \in read_paths
   /\ last.pre.has_entry
   /\ last.pre.mtime > last.pre.entry)
  => (~last.success /\ last.error = ErrStale)

\* C4: on a freshly read file, an edit whose old_text occurs at exactly one
\* position of the text read from the file succeeds and leaves that text with
\* that span, and nothing else, replaced; an edit whose old_text occurs at no
\* or at several positions fails and leaves the file as it was.
C4_ExactlyOneSpan ==
  (/\ last.tool = "edit"
   /\ RealEdit(last.old, last.new)
   /\ last.pre.exists /\ last.pre.has_entry /\ last.pre.entry >= last.pre.mtime)
  => LET before == read_text(last.pre.content)
         at == Positions(before, last.old)
     IN  IF Cardinality(at) = 1
         THEN /\ last.success
              /\ exists(last.path)
              /\ last.content =
                   SpanReplaced(before, CHOOSE i \in at : TRUE, Len(last.old), last.new)
              /\ fs[last.path].content = write_text(last.content)
         ELSE /\ ~last.success
              /\ exists(last.path)
              /\ fs[last.path].content = last.pre.content

\* C5: an edit with old_text = new_text fails with the no-op error in every
\* state of the path and of the ledger, and changes neither.
C5_NoOp ==
  (last.tool = "edit" /\ last.old = last.new)
  => (~last.success /\ last.error = ErrNoOp /\ Untouched(last))

\* C5's case: a no-op edit of a file that is stale in the ledger was rejected
C5_Witness ==
  /\ last.tool = "edit"
  /\ last.old = last.new
  /\ last.error = ErrNoOp
  /\ last.pre.exists /\ last.pre.has_entry /\ last.pre.mtime > last.pre.entry

\* C6: while a file is written and its ledger entry is not yet updated, the
\* writing task holds the event loop and no other task can take a step; when
\* the call has returned the entry is the file's modification time.
C6_PersistAtomic ==
  /\ \A t \in Tasks :
       call[t].phase = "written"
       => /\ running = t
          /\ \A u \in Tasks \ {t} : ~ENABLED TaskStep(u)
  /\ (last.tool \in {"edit", "write"} /\ last.success /\ ~last.disturbed)
     => /\ exists(last.path)
        /\ has_key(read_file_timestamps, last.path)
        /\ read_file_timestamps[last.path] = getmtime(last.path)

\* C6's case: a file is written, the ledger still holds an older timestamp
C6_Witness ==
  \E t \in Tasks :
    /\ call[t].phase = "written"
    /\ exists(call[t].path)
    /\ has_key(read_file_timestamps, call[t].path)
    /\ read_file_timestamps[call[t].path] < getmtime(call[t].path)

\* C7: a read that immediately follows a successful write of the same path
\* returns the written content unchanged, and leaves the ledger entry equal to
\* the file's modification time.
C7_RoundTrip ==
  (last.tool = "read" /\ last.follows_write /\ ~last.disturbed)
  => /\ last.success
     /\ last.content = last.new
     /\ has_key(read_file_timestamps, last.path)
     /\ read_file_timestamps[last.path] = getmtime(last.path)


QueryEnded == query_state \in {"returned", "raised"}

\* C8: the conversation loop receives at most max_iterations model responses
\* and, whatever finite run of responses and failures the provider produces,
\* it ends: it returns a result or raises.
C8_Terminates ==
  /\ [](query_state # "none" => provider.responses <= max_iterations)
  /\ <>QueryEnded

\* C8's case: a loop with two iterations received both responses, dispatched
\* their tool calls and returned
C8_Witness ==
  /\ query_state = "returned"
  /\ max_iterations >= 2
  /\ provider.responses = max_iterations
  /\ provider.dispatched >= 2

\* C9: when max_iterations responses were received and each of them held tool
\* calls, the loop has returned, without raising, the result whose content is
\* the sentinel text, whose finish_reason is "max_iterations" and whose totals
\* are the tokens and the tool calls of all the responses.
C9_MaxIterationsReached ==
  (/\ QueryEnded
   /\ provider.responses = max_iterations
   /\ provider.with_calls = max_iterations)
  => /\ query_state = "returned"
     /\ query_result = MaxIterationsResult(provider.usage, provider.calls_requested)

\* C10: a response without tool calls ends the loop at once: the loop returns
\* the text of that response, the sum of the usage of all the responses
\* received and the number of tool calls requested before; after the return
\* no request is made and no tool call is dispatched.
C10_PlainResponseEnds ==
  [][/\ \A response \in Responses :
          (response.tool_calls = <<>> /\ Query_create_returns(response))
          => /\ query_state' = "returned"
             /\ query_result'.kind = "return"
             /\ query_result'.content =
                  (IF response.content = "None" THEN "" ELSE response.content)
             /\ query_result'.total_tokens = provider'.usage
             /\ query_result'.tool_use_count = provider.calls_requested
     /\ query_state = "returned"
          => /\ ~(\E response \in Responses : Query_create_returns(response))
             /\ ~(\E e \in Exceptions : Query_create_raises(e))
             /\ ~Query_dispatch_start
             /\ ~Query_dispatch_returns
             /\ ~Query_dispatch_raises]_vars

\* C10's case: the second response held no tool calls and ended a loop that
\* had dispatched the tool calls of the first
C10_Witness ==
  /\ query_state = "returned"
  /\ query_result.finish_reason = "stop"
  /\ query_result.content = "answer"
  /\ provider.responses = 2
  /\ query_result.tool_use_count = 2
  /\ query_result.total_tokens = 2

\* the provider failure e is not classified as rate-limited
NotRateLimited(e) ==
  /\ e.status_code # 429
  /\ ~phrase_in("rate limit", e.message_text)
  /\ ~phrase_in("max rpm", e.message_text)

\* no step of the loop is possible
QueryStopped ==
  /\ ~(\E response \in Responses : ENABLED Query_create_returns(response))
  /\ ~(\E e \in Exceptions : ENABLED Query_create_raises(e))
  /\ ~ENABLED Query_dispatch_start
  /\ ~ENABLED Query_dispatch_returns
  /\ ~ENABLED Query_dispatch_raises
  /\ ~ENABLED Query_max_iterations

\* C11: a provider failure that is not rate-limited leaves the loop at once as
\* that exception: nothing is slept, no attempt is counted as a retry, and no
\* step of the loop (request or dispatch) follows.
C11_FatalPropagates ==
  /\ [][\A e \in Exceptions :
          (NotRateLimited(e) /\ Query_create_raises(e))
          => /\ query_state' = "raised"
             /\ query_result' = [kind |-> "raise", origin |-> "create", exception |-> e]
             /\ provider'.slept = provider.slept
             /\ attempt' = attempt]_vars
  /\ [](query_state = "raised" => QueryStopped)

\* C11's case: after two rate-limited failures a failure with status 500 and
\* no rate-limit phrase left the loop
C11_Witness ==
  /\ query_state = "raised"
  /\ query_result.exception = [status_code |-> 500, message_text |-> "connection error"]
  /\ provider.attempts = 3
  /\ Len(provider.slept) = 2

\* C12: a rate-limited failure is retried while fewer than 10 calls of create
\* were made for the model request; create is called at most 10 times for one
\* request, and a rate-limited failure of the 10th call leaves the loop as
\* that exception.
C12_RetryBudget ==
  /\ [](query_state # "none" => provider.attempts <= 10)
  /\ [][\A e \in Exceptions :
          (~NotRateLimited(e) /\ Query_create_raises(e))
          => IF provider.attempts < 9
             THEN /\ query_state' = "request"
                  /\ provider'.attempts = provider.attempts + 1
                  /\ query_result' = query_result
             ELSE /\ query_state' = "raised"
                  /\ provider'.attempts = 10
                  /\ query_result' =
                       [kind |-> "raise", origin |-> "create", exception |-> e]]_vars

\* C12's case: the 10th call of create for one request failed rate-limited
\* and the loop raised
C12_Witness ==
  /\ query_state = "raised"
  /\ provider.attempts = 10
  /\ query_result.exception.status_code = 429

\* C13: the k-th delay slept for one model request is 2 * 2^(k-1) seconds
\* (k = 1..9); while the request is retried every failed call was followed by
\* a sleep, and the failure that leaves the loop is followed by none.
C13_BackoffDoubles ==
  query_state # "none"
  => /\ Len(provider.slept) <= 9
     /\ \A k \in 1..Len(provider.slept) : provider.slept[k] = 2 * 2^(k - 1)
     /\ query_state = "request" => Len(provider.slept) = provider.attempts
     /\ (query_state = "raised" /\ query_result.origin = "create")
          => Len(provider.slept) = provider.attempts - 1

\* C13's case: nine delays were slept and the 10th failure raised
C13_Witness ==
  /\ query_state = "raised"
  /\ provider.slept = <<2, 4, 8, 16, 32, 64, 128, 256, 512>>
  /\ provider.attempts = 10

\* the index in the transcript of the last assistant message, 0 when none
LastAssistant ==
  LET at == {i \in 1..Len(api_messages) : api_messages[i].role = "assistant"}
  IN  IF at = {} THEN 0 ELSE CHOOSE i \in at : \A j \in at : j <= i

\* the tool messages that follow the transcript's message i
ToolMessagesAfter(i) ==
  LET n == CHOOSE n \in 0..(Len(api_messages) - i) :
             /\ \A k \in 1..n : api_messages[i + k].role = "tool"
             /\ (i + n < Len(api_messages) => api_messages[i + n + 1].role # "tool")
  IN  SubSeq(api_messages, i + 1, i + n)

\* C14: the executor is invoked for the tool calls in the order the model
\* emitted them, one at a time: while the calls of a turn are dispatched, the
\* results of the first calls of the turn, and of no other, are in the
\* transcript in their order, the calls still to dispatch are the rest of the
\* turn, and the executor was invoked for one more call than there are
\* results only while it runs that call, the next of the turn.
C14_SequentialDispatch ==
  query_state \in {"dispatch", "executing"}
  => LET calls == api_messages[LastAssistant].tool_calls
         results == ToolMessagesAfter(LastAssistant)
         done == Len(results)
     IN  /\ LastAssistant > 0
         /\ done < Len(calls)
         /\ LastAssistant + done = Len(api_messages)
         /\ \A k \in 1..done : results[k].tool_call_id = calls[k].id
         /\ pending_calls = SubSeq(calls, done + 1, Len(calls))
         /\ \A k \in 1..Len(provider.dispatch_log) : provider.dispatch_log[k] = k
         /\ Len(provider.dispatch_log) =
              calls[done + 1].id - (IF query_state = "executing" THEN 0 ELSE 1)

\* C14's case: the executor runs the second call of a turn, the result of the
\* first is in the transcript
C14_Witness ==
  /\ query_state = "executing"
  /\ Len(pending_calls) = 1
  /\ Len(api_messages[LastAssistant].tool_calls) = 2
  /\ api_messages[Len(api_messages)].role = "tool"

\* C15: when the loop is about to send a model request, every assistant
\* message of the transcript is followed at once by one tool message for each
\* of its tool calls, in the order of the calls and with the call's id, and by
\* no other tool message; every call id is carried by exactly one tool message.
C15_ConsumedExactlyOnce ==
  query_state = "request"
  => /\ api_messages # <<>> => api_messages[1].role = "assistant"
     /\ \A i \in 1..Len(api_messages) :
          api_messages[i].role = "assistant"
          => LET calls == api_messages[i].tool_calls
                 n == Len(calls)
             IN  /\ n > 0
                 /\ i + n <= Len(api_messages)
                 /\ \A k \in 1..n :
                      /\ api_messages[i + k].role = "tool"
                      /\ api_messages[i + k].tool_call_id = calls[k].id
                      /\ Cardinality({j \in 1..Len(api_messages) :
                            /\ api_messages[j].role = "tool"
                            /\ api_messages[j].tool_call_id = calls[k].id}) = 1
                 /\ i + n < Len(api_messages)
                      => api_messages[i + n + 1].role = "assistant"

\* C15's case: the second request is about to be sent after a turn of two
\* tool calls
C15_Witness ==
  /\ query_state = "request"
  /\ iteration = 1
  /\ range_has_next(iteration, max_iterations)
  /\ Len(api_messages) = 3
  /\ Len(api_messages[1].tool_calls) = 2

\* C16: the dispatch of a tool call that names a tool execute_tool does not
\* know cannot raise; it returns, the unknown-tool text is appended to the
\* transcript as the tool message of that call, and the loop goes on with the
\* next call of the turn or, after the last, with the next iteration.
C16_UnknownToolRecovered ==
  /\ [](query_state = "executing" /\ pending_calls[1].name \notin KnownTools
          => ~ENABLED Query_dispatch_raises /\ ENABLED Query_dispatch_returns)
  /\ [][(Query_dispatch_returns /\ pending_calls[1].name \notin KnownTools)
          => /\ api_messages' = Append(api_messages,
                  [role |-> "tool", tool_call_id |-> pending_calls[1].id,
                   name |-> pending_calls[1].name, content |-> "Unknown tool: "])
             /\ pending_calls' = Tail(pending_calls)
             /\ IF Len(pending_calls) > 1
                THEN query_state' = "dispatch" /\ iteration' = iteration
                ELSE query_state' = "request" /\ iteration' = iteration + 1]_vars

\* C16's case: the unknown-tool text of the first call of a turn is in the
\* transcript and the second call of the turn, a known tool, is dispatched
C16_Witness ==
  /\ query_state = "executing"
  /\ Len(api_messages) = 2
  /\ api_messages[2].content = "Unknown tool: "
  /\ api_messages[2].name = "nosuch"
  /\ pending_calls[1].name = "bash"

\* C17: no error of a dispatched tool call leaves the loop as an exception:
\* the loop raises only what chat.completions.create raised.
C17_ToolErrorsAreText ==
  query_state = "raised" => query_result.origin # "tool_executor"

\* C18: once execute_parallel_tasks has returned, its list holds exactly
\* num_agents AgentResults, the one of agent index i at position i: the result
\* the participant returned, or, for a participant that raised, a degraded
\* result whose content is the failure text with the exception's description
\* and whose tool_use_count is 0.
C18_OneResultPerAgent ==
  fan_state \in {"collected", "synthesizing", "done", "raised"} =>
    /\ Len(agent_results) = num_agents
    /\ \A i \in AgentIndexes(num_agents) :
         /\ agent_results[i + 1].kind = "AgentResult"
         /\ agent_results[i + 1].agent_index = i
         /\ tasks[i].state = "returned" => agent_results[i + 1] = tasks[i].result
         /\ tasks[i].state = "raised" =>
              /\ agent_results[i + 1].content =
                   <<"Agent execution failed: ", tasks[i].result.exception.message_text>>
              /\ agent_results[i + 1].tool_use_count = 0

\* C18's case: of three participants the second raised after a tool call of
\* its own, the two others returned, and execute_parallel_tasks has returned
C18_Witness ==
  /\ fan_state = "collected"
  /\ num_agents = 3
  /\ tasks[0].state = "returned"
  /\ tasks[1].state = "raised"
  /\ tasks[1].tool_use_count = 1
  /\ tasks[2].state = "returned"
  /\ Len(agent_results) = 3

\* C19: a participant that raises leaves its siblings alone: while the gather
\* is under way every participant still running can go on and end by itself,
\* the gather is left only when every participant has ended, the query of the
\* synthesis is given one entry per participant, and once a participant has
\* raised the query of the synthesis is eventually called.
C19_FaultIsolated ==
  /\ [](fan_state = "gathering" =>
          \A j \in AgentIndexes(num_agents) :
            tasks[j].state = "running" =>
              /\ ENABLED Agent_returns(j, "answer", 0)
              /\ ENABLED Agent_raises(j, ToolException))
  /\ [](fan_state \in {"collected", "synthesizing", "done", "raised"} =>
          \A j \in AgentIndexes(num_agents) : tasks[j].state \in {"returned", "raised"})
  /\ [](synthesis_query.called =>
          /\ Len(synthesis_query.messages) = num_agents
          /\ \A j \in AgentIndexes(num_agents) :
               \E k \in 1..num_agents : synthesis_query.messages[k].agent_number = j + 1)
  /\ ((\E i \in AgentIndexes(num_agents) : tasks[i].state = "raised")
        ~> synthesis_query.called)

\* C19's case: the first participant raised before any other ended, the
\* others then dispatched a tool and returned, and the synthesis was called
C19_Witness ==
  /\ num_agents = 3
  /\ completion_order = <<0, 2, 1>>
  /\ tasks[0].state = "raised"
  /\ tasks[1].state = "returned" /\ tasks[1].tool_use_count = 1
  /\ tasks[2].state = "returned" /\ tasks[2].tool_use_count = 1
  /\ synthesis_query.called
  /\ fan_state = "synthesizing"

\* C20: whatever the order of the list synthesize_results is given, the prompt
\* of the synthesis lists every agent's output once, by ascending agent index.
C20_PromptSortedByIndex ==
  synthesis_query.called =>
    /\ Len(synthesis_query.messages) = Len(agent_results)
    /\ \A k \in 1..(Len(synthesis_query.messages) - 1) :
         synthesis_query.messages[k].agent_number
           < synthesis_query.messages[k + 1].agent_number
    /\ \A k \in 1..Len(agent_results) :
         \E m \in 1..Len(synthesis_query.messages) :
           synthesis_query.messages[m] =
             [agent_number |-> agent_results[k].agent_index + 1,
              content |-> agent_results[k].content]

\* C20's case: the list holds the results of the agents 2, 0, 1 in that order,
\* the one of agent 0 degraded, and the prompt has been built
C20_Witness ==
  /\ synthesis_query.called
  /\ Len(agent_results) = 3
  /\ agent_results[1].agent_index = 2
  /\ agent_results[2].agent_index = 0
  /\ agent_results[2].content = <<"Agent execution failed: ", "tool call failed">>
  /\ agent_results[3].agent_index = 1
  /\ synthesis_query.messages[1].agent_number = 1

\* C21: the synthesis gives its query no tools, no tool executor and
\* max_iterations = 1; the query receives at most one response, dispatches no
\* tool call and cannot dispatch one; no step of the pass changes a file or the
\* ledger; the AgentResult returned has agent_index -1 and tool_use_count 0,
\* and no participant's result has agent_index -1.
C21_SynthesisNoSideEffects ==
  /\ [](fan_state = "synthesizing" =>
          /\ synthesis_query.tools = "None"
          /\ synthesis_query.tool_executor = "None"
          /\ synthesis_query.max_iterations = 1
          /\ max_iterations = 1
          /\ provider.responses <= 1
          /\ provider.dispatched = 0
          /\ pending_calls = <<>>
          /\ ~ENABLED Query_dispatch_start
          /\ ~ENABLED Query_dispatch_returns
          /\ (provider.responses = 1 => query_state \in {"returned", "raised"}))
  /\ [](fan_state = "done" =>
          /\ provider.responses = 1
          /\ provider.dispatched = 0
          /\ synthesis_result.kind = "AgentResult"
          /\ synthesis_result.agent_index = -1
          /\ synthesis_result.tool_use_count = 0
          /\ \A k \in 1..Len(agent_results) : agent_results[k].agent_index # -1)
  /\ [][fs' = fs /\ read_file_timestamps' = read_file_timestamps]_vars

\* C21's case: the response to the synthesis asked for tool calls, none was
\* dispatched, and the pass has returned with the ledger's entry in place
C21_Witness ==
  /\ fan_state = "done"
  /\ provider.calls_requested = 2
  /\ provider.dispatched = 0
  /\ synthesis_result.agent_index = -1
  /\ read_file_timestamps = [q \in {"a.txt"} |-> 1]

\* the sum of the numbers of a sequence
RECURSIVE SeqSum(_)
SeqSum(numbers) ==
  IF numbers = <<>> THEN 0
  ELSE numbers[Len(numbers)] + SeqSum(SubSeq(numbers, 1, Len(numbers) - 1))

\* C22: the dict AgentTool.execute returns for a fan-out reports as tokens the
\* sum of the tokens of all participants' results plus the tokens the provider
\* counted for the synthesis, and as tool_use_count the sum of the
\* tool_use_count of all participants' results plus the tool calls the
\* synthesis dispatched (none) and the tool_use_count of its AgentResult (0).
C22_AggregateCounts ==
  fan_state = "done" =>
    /\ fan_result.tokens =
         SeqSum([k \in 1..Len(agent_results) |-> agent_results[k].tokens])
           + provider.usage
    /\ fan_result.tokens =
         SeqSum([k \in 1..Len(agent_results) |-> agent_results[k].tokens])
           + synthesis_result.tokens
    /\ fan_result.tool_use_count =
         SeqSum([k \in 1..Len(agent_results) |-> agent_results[k].tool_use_count])
           + provider.dispatched
    /\ fan_result.tool_use_count =
         SeqSum([k \in 1..Len(agent_results) |-> agent_results[k].tool_use_count])
           + synthesis_result.tool_use_count
    /\ fan_result.parallel_agents = Len(agent_results)

\* C22's case: both participants report a tool use and a token, the synthesis
\* used a token, and the fan-out reports 3 tokens and 2 tool uses
C22_Witness ==
  /\ fan_state = "done"
  /\ agent_results[1].tokens = 1 /\ agent_results[1].tool_use_count = 1
  /\ agent_results[2].tokens = 1 /\ agent_results[2].tool_use_count = 1
  /\ synthesis_result.tokens = 1
  /\ fan_result.tokens = 3
  /\ fan_result.tool_use_count = 2

\* the schemas a list holds
SchemasOf(fns) == {fns[k] : k \in 1..Len(fns)}

\* C23: once the participants are created, each one's query has been given the
\* same tools: with agent_config.tools = ["*"] the caller's list unchanged,
\* otherwise exactly the caller's schemas whose name is one of
\* agent_config.tools, each once and in the caller's order; the tools depend
\* on nothing but agent_config.tools and the caller's list.
C23_ToolsFiltered ==
  fan_state \in {"gathering", "collected"} =>
    /\ DOMAIN task_functions = AgentIndexes(num_agents)
    /\ \A i, j \in AgentIndexes(num_agents) : task_functions[i] = task_functions[j]
    /\ \A i \in AgentIndexes(num_agents) :
         IF agent_tools = <<"*">>
         THEN task_functions[i] = functions
         ELSE /\ SchemasOf(task_functions[i]) =
                   {f \in SchemasOf(functions) :
                      \E k \in 1..Len(agent_tools) : f.name = agent_tools[k]}
              /\ Len(task_functions[i]) = Cardinality(SchemasOf(task_functions[i]))
              /\ \A a, b \in 1..Len(task_functions[i]) :
                   a < b =>
                     \E c, d \in 1..Len(functions) :
                       /\ c < d
                       /\ functions[c] = task_functions[i][a]
                       /\ functions[d] = task_functions[i][b]

\* C23's case: the agent allows read and bash, the caller has bash, edit and
\* read, and the three participants run with bash and read
C23_Witness ==
  /\ fan_state = "gathering"
  /\ num_agents = 3
  /\ agent_tools = <<"read", "bash">>
  /\ Len(functions) = 3
  /\ task_functions[2] = <<[type |-> "function", name |-> "bash"],
                           [type |-> "function", name |-> "read"]>>
  /\ tasks[0].state = "returned"

\* C24: an edit or write of an existing file by a participant that has read
\* or written the file before passes validation only if the file is no newer
\* than that participant last read or wrote it: a file another participant has
\* written since is rejected as stale.
C24_RaceCaughtAsStale ==
  \A t \in Tasks :
    (/\ call[t].phase = "validated"
     /\ call[t].tool \in {"edit", "write"}
     /\ call[t].pre.exists
     /\ seen[t] >= 0)
    => call[t].pre.mtime <= seen[t]

\* the latest mtime of the target any task has read or written it with
LatestSeen == CHOOSE m \in {seen[t] : t \in Tasks} : \A t \in Tasks : seen[t] <= m

\* C25: the ledger entry of the path is the one the latest successful read,
\* edit or write of any task of the session left, there is none exactly when
\* no task has read or written the path, and it is this entry that the
\* validation of every task's edit or write finds, whichever task left it.
C25_LedgerShared ==
  /\ has_key(read_file_timestamps, target) => read_file_timestamps[target] = LatestSeen
  /\ ~has_key(read_file_timestamps, target) => \A t \in Tasks : seen[t] = -1
  /\ \A b \in Tasks :
       (call[b].phase = "validated" /\ call[b].tool \in {"edit", "write"}) =>
         /\ call[b].pre.has_entry = (LatestSeen >= 0)
         /\ call[b].pre.has_entry => call[b].pre.entry = LatestSeen
  /\ (last.tool \in {"edit", "write"} /\ ~last.success) =>
         /\ last.pre.has_entry = (LatestSeen >= 0)
         /\ last.pre.has_entry => last.pre.entry = LatestSeen

\* C25's case: task 1 has written the file after a tick of the clock, task 2
\* has never read or written it, and task 2's write has passed validation on
\* the entry task 1's write left
C25_Witness ==
  /\ seen[1] = 2
  /\ seen[2] = -1
  /\ call[2].phase = "validated"
  /\ call[2].tool = "write"
  /\ call[2].pre.exists
  /\ call[2].pre.has_entry
  /\ call[2].pre.entry = 2

\* C26: a participant in a model request or in a tool call has yielded the
\* event loop: any other participant that is ready to run can be run then.
C26_YieldsAtRequestsAndTools ==
  \A i, j \in AgentIndexes(num_agents) :
    (/\ fan_state = "gathering"
     /\ tasks[i].state \in {"create", "tool"}
     /\ tasks[j].state \in {"created", "sleep"})
    => ENABLED Loop_runs(j)

C28_WriteValidation ==
  last.tool = "write" =>
    /\ ~last.pre.exists =>
         /\ last.success
         /\ ~last.disturbed =>
              /\ exists(last.path)
              /\ has_key(read_file_timestamps, last.path)
              /\ read_file_timestamps[last.path] = getmtime(last.path)
    /\ last.pre.exists =>
         /\ last.error =
              (IF last.path = "n.ipynb" THEN ErrNotebook
               ELSE IF ~last.pre.has_entry \/ last.pre.entry = 0 THEN ErrUnread
               ELSE IF last.pre.mtime > last.pre.entry THEN ErrStale
               ELSE NoError)
         /\ last.success = (last.error = NoError)
         /\ (~last.success /\ last.pre.content # <<>>) =>
              last.error = EditTool_validate_input(last.path, last.pre.content, <<>>,
                                                   read_file_timestamps)

\* C28's case: a write found no file and no ledger entry and has created the
\* file, the ledger holds the new file's modification time
C28_Witness ==
  /\ last.tool = "write"
  /\ last.success
  /\ ~last.pre.exists
  /\ ~last.pre.has_entry
  /\ exists(last.path)
  /\ read_file_timestamps[last.path] = getmtime(last.path)

\* C29: the ledger changes only in a step in which a read, an edit or a write
\* returns success; a read of a missing path, of a directory or of a file
\* larger than MAX_OUTPUT_SIZE fails; and after a failed read, and after an
\* edit or a write that validation turned down, the file and the ledger entry
\* of the path are as the call found them.
C29_FailedCallLeavesAll ==
  (/\ last.tool \in {"read", "edit", "write"}
   /\ ~last.success
   /\ ~last.disturbed) => Untouched(last)

C29_TurnedDownReads ==
  (/\ last.tool = "read"
   /\ last.success
   /\ ~last.disturbed) =>
     (exists(last.path) /\ ~isdir(last.path) /\ getsize(last.path) <= MaxOutputSize)

C30_TimedOut(e) ==
  /\ e.tool = "bash"
  /\ e.command.duration > BashTool_timeout(e.timeout)

C30_TimeoutResult ==
  C30_TimedOut(last) =>
    /\ last.result.interrupted
    /\ last.result.exit_code # 0
    /\ last.result.stderr = TimedOutText(BashTool_timeout(last.timeout))

C30_TimeoutIsToolResult ==
  /\ []C30_TimeoutResult
  /\ [][(last' # last /\ C30_TimedOut(last')) =>
          /\ pending_calls # <<>>
          /\ api_messages' = Append(api_messages,
                [role |-> "tool", tool_call_id |-> Head(pending_calls).id,
                 name |-> "bash",
                 content |-> TimedOutText(BashTool_timeout(last'.timeout))
                             \o AbortedText])
          /\ last'.call_id = Head(pending_calls).id
          /\ query_state' \in {"dispatch", "request"}
          /\ query_result' = query_result]_vars

\* the query has returned the model's answer after a bash call that timed out
\* at the 600 second cap
C30_Witness ==
  /\ C30_TimedOut(last)
  /\ last.timeout = 1000
  /\ last.result.stderr = "Command execution timed out after 600 seconds"
  /\ query_state = "returned"
  /\ query_result.kind = "return"
  /\ api_messages[Len(api_messages)].role = "tool"
  /\ api_messages[Len(api_messages)].content = last.result.stderr \o AbortedText

\* C31: when load_all_agents has returned, no two agents of the list have the
\* same agent_type.
C31_AgentTypeUnique ==
  load_state = "loaded" =>
    \A i, j \in 1..Len(agents) :
      agents[i].agent_type = agents[j].agent_type => i = j

\* C32: when load_all_agents has returned, the list is not empty, the built-in
\* general-purpose agent is in it, and find_agent_by_type("general-purpose")
\* finds an agent, whatever the files of the project hold.
C32_BuiltInAlwaysLoaded ==
  load_state = "loaded" =>
    /\ agents # <<>>
    /\ \E i \in 1..Len(agents) : agents[i] = GeneralPurposeAgent
    /\ find_agent_by_type(agents, "general-purpose") # <<>>

\* every file of the project was unreadable, malformed or without a required
\* key, and the list is the built-in agent alone
C32_Witness ==
  /\ load_state = "loaded"
  /\ agents = <<GeneralPurposeAgent>>

\* C33: an edit is turned down with the error of the first check that fails,
\* in the order no-op, already exists, missing, notebook, unread (no ledger
\* entry), stale, not found, several matches; it is accepted when none fails.
C33_FirstFailingCheck(r) ==
  LET content == read_text(r.pre.content)
  IN  IF r.old = r.new THEN ErrNoOp
      ELSE IF r.pre.exists /\ r.old = <<>> THEN ErrExists
      ELSE IF ~r.pre.exists /\ r.old # <<>> THEN ErrMissing
      ELSE IF ~r.pre.exists THEN NoError
      ELSE IF endswith_ipynb(r.path) THEN ErrNotebook
      ELSE IF ~r.pre.has_entry THEN ErrUnread
      ELSE IF r.pre.mtime > r.pre.entry THEN ErrStale
      ELSE IF Positions(content, r.old) = {} THEN ErrNotFound
      ELSE IF Cardinality(Positions(content, r.old)) > 1 THEN ErrMultiple
      ELSE NoError

C33_ValidationPrecedence ==
  (last.tool = "edit" /\ ~last.disturbed) =>
    IF last.success
    THEN C33_FirstFailingCheck(last) = NoError
    ELSE last.error = C33_FirstFailingCheck(last)

\* C40: an edit or a write fails with the unread error only when the ledger
\* holds no entry for the path; after a successful read of the path none
\* does, whatever modification time the read recorded.
C40_UnreadOnlyWithoutEntry ==
  (/\ last.tool \in {"edit", "write"}
   /\ ~last.success
   /\ last.error = ErrUnread) =>
     (~last.pre.has_entry /\ last.path \notin read_paths)

\* C39: an edit whose old_string matches at more than one position of the
\* file's content, overlapping positions included, is turned down and never
\* applied.
C39_SeveralPositionsRejected ==
  (/\ last.tool = "edit"
   /\ ~last.disturbed
   /\ last.pre.exists
   /\ last.old # <<>>
   /\ Cardinality(Positions(read_text(last.pre.content), last.old)) > 1) =>
     ~last.success

\* C36: when an edit or a write that no other process disturbed has returned
\* success, the ledger entry of its path is the modification time of the file;
\* and an edit or a write of the same path that the session makes next, with
\* no read and no change by another process in between, is not turned down
\* as unread or as stale.
C36_EntryIsMtime ==
  (/\ last.tool \in {"edit", "write"}
   /\ last.success
   /\ ~last.disturbed) =>
     /\ exists(last.path)
     /\ has_key(read_file_timestamps, last.path)
     /\ read_file_timestamps[last.path] = getmtime(last.path)

C36_EditsChain ==
  /\ []C36_EntryIsMtime
  /\ [][(/\ last.tool \in {"edit", "write"}
          /\ last.success
          /\ ~last.disturbed
          /\ last'.tool \in {"edit", "write"}
          /\ last'.path = last.path
          /\ ~last'.success) => last'.error \notin {ErrUnread, ErrStale}]_vars

\* an edit has succeeded on a file that no read of the session ever returned:
\* the entry it relied on is the one a write of the session left
C36_Witness ==
  /\ last.tool = "edit"
  /\ last.success
  /\ ~last.disturbed
  /\ last.pre.exists
  /\ last.pre.has_entry
  /\ last.old # <<>>
  /\ last.path \notin read_paths
  /\ read_file_timestamps[last.path] = getmtime(last.path)

\* C35: when query returns the iteration-limit sentinel, the provider has
\* answered exactly max_iterations times and the tool_use_count of the result
\* is the number of tool calls handed to the tool executor, with and without
\* a tool executor.
C35_SentinelAfterAllIterations ==
  (/\ query_state = "returned"
   /\ query_result.finish_reason = "max_iterations") =>
     /\ provider.responses = max_iterations
     /\ query_result.tool_use_count = provider.dispatched

\* C37: a rate-limited failure that is retried leaves the iteration, the
\* transcript and the count of responses as they were; at every request the
\* attempt counter is the number of failed calls of that request alone, so it
\* and the delays start again with each iteration; and a run calls the
\* provider at most 10 * max_iterations times.
C37_RetriesState ==
  query_state # "none" =>
    /\ create_calls <= 10 * max_iterations
    /\ query_state = "request" =>
         /\ attempt = provider.attempts
         /\ attempt = Len(provider.slept)
         /\ provider.responses = iteration
         /\ create_calls <= 10 * iteration + attempt
    /\ \A k \in 1..Len(provider.slept) : provider.slept[k] = 2 * 2^(k - 1)

C37_RetriesPerRequest ==
  /\ []C37_RetriesState
  /\ [][(query_state = "request" /\ query_state' = "request"
          /\ create_calls' = create_calls + 1
          /\ provider'.responses = provider.responses) =>
            /\ iteration' = iteration
            /\ api_messages' = api_messages
            /\ attempt' = attempt + 1]_vars

\* the second request of a run is being retried after its first rate-limited
\* failure, and the first request had been retried too
C37_Witness ==
  /\ query_state = "request"
  /\ iteration = 1
  /\ attempt = 1
  /\ provider.slept = <<2>>
  /\ create_calls >= 4

\* C38: conversation_history starts with a user message and no two messages
\* that follow each other have the same role, also after a run_query whose
\* loop raised; and no step of the loop changes conversation_history.
C38_Alternates ==
  /\ (conversation_history # <<>> => conversation_history[1].role = "user")
  /\ \A i \in 1..(Len(conversation_history) - 1) :
       conversation_history[i].role # conversation_history[i + 1].role

C38_HistoryAlternates ==
  /\ []C38_Alternates
  /\ [][(query_state # "none" /\ query_state' # "none") =>
          conversation_history' = conversation_history]_vars

\* C34: when the agent configuration names a tool subset, every tool that
\* execute_tool runs for a participant of the fan-out is in that subset.
C34_OnlyAllowedToolsRun ==
  agent_tools # <<"*">> =>
    \A x \in executed : \E k \in 1..Len(agent_tools) : x[2] = agent_tools[k]

====
